---- MODULE Spec2Model ----
(***************************************************************************)
(* Verification model of the Jeremiah parallel-edition pipeline:           *)
(*   scripts/02_parse_usfm.py   (footnote extractor, inline normaliser,    *)
(*                               structural encoder parse_usfm_file)       *)
(*   scripts/05_csv_to_tex.py   (esc, render_markers,                      *)
(*                               inject_latex_footnotes,                   *)
(*                               render_structured_to_latex)               *)
(*                                                                         *)
(* A Python str is modelled as a sequence of lexemes ("atoms"): a single   *)
(* punctuation or control character, a run of letters, or a run of         *)
(* digits.  The regular expressions of the source are translated to        *)
(* scanners over such sequences.                                           *)
(***************************************************************************)
EXTENDS Integers, Sequences, FiniteSets, TLC

(***************************************************************************)
(* Character classes                                                       *)
(***************************************************************************)
STRUCT_DELIM == "<RS>"

IsSpace(a) == a \in {" ", "nbsp"}

Digits == {"0", "1", "2", "3", "5", "01"}

IntOf(d) ==
    CASE d = "0" -> 0 [] d = "1" -> 1 [] d = "01" -> 1
      [] d = "2" -> 2 [] d = "3" -> 3 [] d = "5" -> 5

StrOfInt(n) ==
    CASE n = 0 -> "0" [] n = 1 -> "1" [] n = 2 -> "2"
      [] n = 3 -> "3" [] n = 5 -> "5"

LowerLetters == {"a", "b"}

Punct == {",", ".", ";", ":", "!", "?"}

QTags == {"Q:", "Q:0", "Q:1", "Q:2", "Q:3", "Q:5"}

StyleTags == {"STYLE:HDG", "STYLE:PARA"}

LatexSpecials == {"&", "%", "$", "#", "_", "{", "}", "~", "^"}

LatexCommands ==
    {"\\textbackslash", "\\&", "\\%", "\\$", "\\#", "\\_", "\\{", "\\}",
     "\\textasciitilde", "\\textasciicircum", "\\textit{", "\\textsc{",
     "\\textsuperscript{", "\\footnote{", "\\texthebrew{", "\\poemline{",
     "}{", "\\DescriptiveHeading{", "\\par", "PILCROW", "{\\raggedright "}

NonLetterAtoms ==
    Digits \cup Punct \cup QTags \cup StyleTags \cup LatexSpecials
      \cup LatexCommands
      \cup {" ", "nbsp", "\\", "+", "*", "|", "=", "\"", "'", "rsquo",
            "lsquo", "ldquo", "rdquo", "heb", "-", STRUCT_DELIM}

\* [A-Za-z]+ : a run of ASCII letters
IsLetters(a) == a \notin NonLetterAtoms

\* \w at the first / last character of the lexeme
IsWord(a) ==
    IsLetters(a) \/ a \in Digits \/ a \in QTags \/ a \in StyleTags
      \/ a \in {"heb", "_"}

(***************************************************************************)
(* str primitives                                                          *)
(***************************************************************************)
StartsWith(s, p) == Len(p) <= Len(s) /\ SubSeq(s, 1, Len(p)) = p

Drop(s, n) == SubSeq(s, n + 1, Len(s))

Contains(s, p) ==
    \E k \in 1..(Len(s) - Len(p) + 1) : SubSeq(s, k, k + Len(p) - 1) = p

\* the smallest index of a set of indices, 0 for the empty set: where a
\* left-to-right scan stops first
FirstIn(C) == IF C = {} THEN 0 ELSE CHOOSE k \in C : \A j \in C : k <= j

\* smallest index k >= from at which p occurs in s, 0 when there is none
IndexOf(s, p, from) ==
    FirstIn({k \in from..(Len(s) - Len(p) + 1) :
                SubSeq(s, k, k + Len(p) - 1) = p})

\* \s* at the head of s: the number of atoms the greedy run takes
SpaceRun(s) ==
    CHOOSE n \in 0..Len(s) :
        /\ \A k \in 1..n : IsSpace(s[k])
        /\ n = Len(s) \/ ~IsSpace(s[n + 1])

LStrip(s) == Drop(s, SpaceRun(s))

RStrip(s) ==
    IF s = <<>> THEN <<>>
    ELSE LET C == {k \in 1..Len(s) : ~IsSpace(s[k])}
         IN  IF C = {} THEN <<>>
             ELSE SubSeq(s, 1, CHOOSE k \in C : \A j \in C : j <= k)

\* str.strip()
Strip(s) == RStrip(LStrip(s))

\* str.replace(p, r), p non-empty: the occurrences of p from the left,
\* not overlapping
RECURSIVE Replace(_, _, _)
Replace(s, p, r) ==
    IF s = <<>> THEN <<>>
    ELSE LET k == IndexOf(s, p, 1)
         IN  IF k = 0 THEN s
             ELSE SubSeq(s, 1, k - 1) \o r
                    \o Replace(Drop(s, k + Len(p) - 1), p, r)

\* str.split(sep), sep non-empty
RECURSIVE Split(_, _)
Split(s, sep) ==
    IF s = <<>> THEN <<s>>
    ELSE LET k == IndexOf(s, sep, 1)
         IN  IF k = 0 THEN <<s>>
             ELSE <<SubSeq(s, 1, k - 1)>>
                    \o Split(Drop(s, k + Len(sep) - 1), sep)

\* sep.join(parts)
RECURSIVE Join(_, _)
Join(parts, sep) ==
    IF parts = <<>> THEN <<>>
    ELSE IF Len(parts) = 1 THEN parts[1]
    ELSE parts[1] \o sep \o Join(Tail(parts), sep)

\* the longest prefix of s without a backslash: [^\\]*
NoBackslashRun(s) ==
    LET k == IndexOf(s, <<"\\">>, 1)
    IN  IF k = 0 THEN s ELSE SubSeq(s, 1, k - 1)

\* [A-Za-z]+ and \d* at the head of s: the number of atoms they take
LettersRun(s) ==
    CHOOSE n \in 0..Len(s) :
        /\ \A k \in 1..n : IsLetters(s[k])
        /\ n = Len(s) \/ ~IsLetters(s[n + 1])

DigitsRun(s) ==
    CHOOSE n \in 0..Len(s) :
        /\ \A k \in 1..n : s[k] \in Digits
        /\ n = Len(s) \/ s[n + 1] \notin Digits

(***************************************************************************)
(* Placeholders (02_parse_usfm.py 58-65, 169-171; 05_csv_to_tex.py 8-50)   *)
(***************************************************************************)
FOOTNOTE_DELIM == <<STRUCT_DELIM, "FOOTNOTE", STRUCT_DELIM>>
ADD_OPEN == <<STRUCT_DELIM, "ADDOPEN", STRUCT_DELIM>>
ADD_CLOSE == <<STRUCT_DELIM, "ADDCLOSE", STRUCT_DELIM>>
SC_OPEN == <<STRUCT_DELIM, "SCOPEN", STRUCT_DELIM>>
SC_CLOSE == <<STRUCT_DELIM, "SCCLOSE", STRUCT_DELIM>>
SUP_OPEN == <<STRUCT_DELIM, "SUPOPEN", STRUCT_DELIM>>
SUP_CLOSE == <<STRUCT_DELIM, "SUPCLOSE", STRUCT_DELIM>>
STYLE_HDG == <<STRUCT_DELIM, "STYLE:HDG", STRUCT_DELIM>>
STYLE_PARA == <<STRUCT_DELIM, "STYLE:PARA", STRUCT_DELIM>>

(***************************************************************************)
(* Footnote extractor                                                      *)
(***************************************************************************)
\* PLUS_MARK_RE = \\\+[A-Za-z]+[* ]?   length of the match at the head of s
PlusMarkLen(s) ==
    IF Len(s) >= 3 /\ s[1] = "\\" /\ s[2] = "+" /\ IsLetters(s[3])
    THEN LET n == 2 + LettersRun(Drop(s, 2))
         IN  IF Len(s) > n /\ s[n + 1] \in {"*", " "} THEN n + 1 ELSE n
    ELSE 0

\* PLUS_MARK_RE.sub("", block)
RECURSIVE StripPlusMarks(_)
StripPlusMarks(s) ==
    IF s = <<>> THEN <<>>
    ELSE LET k == FirstIn({h \in 1..Len(s) : PlusMarkLen(Drop(s, h - 1)) > 0})
         IN  IF k = 0 THEN s
             ELSE SubSeq(s, 1, k - 1)
                    \o StripPlusMarks(Drop(s, k - 1
                                             + PlusMarkLen(Drop(s, k - 1))))

\* \\fr\b\s*([^\\]+) and \\ft\b\s*([^\\]+) matched at the head of s:
\* the marker, a word boundary, then at least one non-backslash character
PieceMatches(s, tag) ==
    /\ Len(s) >= 3
    /\ s[1] = "\\" /\ s[2] = tag
    /\ ~IsWord(s[3])
    /\ s[3] # "\\"

\* group(1) of such a match: \s* is greedy and gives characters back only
\* when nothing but whitespace precedes the next backslash
PieceGroup(s) ==
    LET run == NoBackslashRun(LStrip(Drop(s, 2)))
    IN  IF run # <<>> THEN run ELSE <<" ">>

\* characters consumed by such a match
PieceLen(s) ==
    LET rest == Drop(s, 2)
        run == NoBackslashRun(LStrip(rest))
    IN  IF run # <<>> THEN 2 + SpaceRun(rest) + Len(run)
        ELSE 2 + SpaceRun(rest)

\* [m.group(1).strip() for m in RE.finditer(block)]
RECURSIVE Pieces(_, _)
Pieces(s, tag) ==
    IF s = <<>> THEN <<>>
    ELSE LET k == FirstIn({h \in 1..Len(s) : PieceMatches(Drop(s, h - 1), tag)})
             m == Drop(s, k - 1)
         IN  IF k = 0 THEN <<>>
             ELSE <<Strip(PieceGroup(m))>> \o Pieces(Drop(m, PieceLen(m)), tag)

\* variant: the block is kept and the placeholder put after it
repl_BlockKept(match) ==
    LET block == StripPlusMarks(match)
        frs == Pieces(block, "fr")
        fr == IF frs = <<>> THEN <<>> ELSE frs[1]
        ft == Strip(Join(Pieces(block, "ft"), <<" ">>))
        note == IF fr # <<>> THEN fr \o <<":", " ">> \o ft ELSE ft
    IN  IF ft = <<>> THEN <<" ">>
        ELSE match \o FOOTNOTE_DELIM \o note \o FOOTNOTE_DELIM \o <<" ">>

\* variant: a block with an empty body gets a placeholder too
repl_EmptyNoteKept(match) ==
    LET block == StripPlusMarks(match)
        frs == Pieces(block, "fr")
        fr == IF frs = <<>> THEN <<>> ELSE frs[1]
        ft == Strip(Join(Pieces(block, "ft"), <<" ">>))
        note == IF fr # <<>> THEN fr \o <<":", " ">> \o ft ELSE ft
    IN  FOOTNOTE_DELIM \o note \o FOOTNOTE_DELIM \o <<" ">>

\* variant: the reference piece is left out of the note
repl_ReferenceDropped(match) ==
    LET block == StripPlusMarks(match)
        ft == Strip(Join(Pieces(block, "ft"), <<" ">>))
    IN  IF ft = <<>> THEN <<" ">>
        ELSE FOOTNOTE_DELIM \o ft \o FOOTNOTE_DELIM \o <<" ">>

\* the replacement function of extract_usfm_footnotes
repl(match) ==
    LET block == StripPlusMarks(match)
        frs == Pieces(block, "fr")
        fr == IF frs = <<>> THEN <<>> ELSE frs[1]
        ft == Strip(Join(Pieces(block, "ft"), <<" ">>))
        note == IF fr # <<>> THEN fr \o <<":", " ">> \o ft ELSE ft
    IN  IF ft = <<>> THEN <<" ">>
        ELSE FOOTNOTE_DELIM \o note \o FOOTNOTE_DELIM \o <<" ">>

\* FOOTNOTE_BLOCK_RE = \\f\b.*?\\f\*   length of the match at the head of s
FootnoteBlockLen(s) ==
    IF /\ Len(s) >= 2 /\ s[1] = "\\" /\ s[2] = "f"
       /\ (Len(s) = 2 \/ ~IsWord(s[3]))
    THEN LET k == IndexOf(s, <<"\\", "f", "*">>, 3)
         IN  IF k = 0 THEN 0 ELSE k + 2
    ELSE 0

RECURSIVE extract_usfm_footnotes(_)
extract_usfm_footnotes(raw) ==
    IF raw = <<>> THEN <<>>
    ELSE LET k == FirstIn({h \in 1..Len(raw) :
                              FootnoteBlockLen(Drop(raw, h - 1)) > 0})
             m == Drop(raw, k - 1)
         IN  IF k = 0 THEN raw
             ELSE SubSeq(raw, 1, k - 1)
                    \o repl(SubSeq(m, 1, FootnoteBlockLen(m)))
                    \o extract_usfm_footnotes(Drop(m, FootnoteBlockLen(m)))

(***************************************************************************)
(* Inline normaliser                                                       *)
(***************************************************************************)
Apostrophes == {"rsquo", "'"}
OpenQuotes == {"lsquo", "ldquo", "'", "\""}
CloseDoubleQuotes == {"rdquo", "\""}

\* PIPE_ATTR_RE = \|[A-Za-z]+="[^"]*"   length of the match at the head of s
PipeAttrLen(s) ==
    IF Len(s) >= 2 /\ s[1] = "|" /\ IsLetters(s[2])
    THEN LET n == 1 + LettersRun(Tail(s))
         IN  IF Len(s) >= n + 2 /\ s[n + 1] = "=" /\ s[n + 2] = "\""
             THEN IndexOf(s, <<"\"">>, n + 3)
             ELSE 0
    ELSE 0

\* PIPE_ATTR_RE.sub("", line)
RECURSIVE StripPipeAttrs(_)
StripPipeAttrs(s) ==
    IF s = <<>> THEN <<>>
    ELSE LET k == FirstIn({h \in 1..Len(s) : PipeAttrLen(Drop(s, h - 1)) > 0})
         IN  IF k = 0 THEN s
             ELSE SubSeq(s, 1, k - 1)
                    \o StripPipeAttrs(Drop(s, k - 1
                                             + PipeAttrLen(Drop(s, k - 1))))

\* STAR_RE.sub("", line)
StripStars(s) == SelectSeq(s, LAMBDA a : a # "*")

\* USFM_MARK_RE = \\[A-Za-z]+\d*\*?   length of the match at the head of s
UsfmMarkLen(s) ==
    IF Len(s) >= 2 /\ s[1] = "\\" /\ IsLetters(s[2])
    THEN LET n == 1 + LettersRun(Tail(s))
             m == n + DigitsRun(Drop(s, n))
         IN  IF Len(s) > m /\ s[m + 1] = "*" THEN m + 1 ELSE m
    ELSE 0

\* USFM_MARK_RE.sub(" ", line)
RECURSIVE StripUsfmMarks(_)
StripUsfmMarks(s) ==
    IF s = <<>> THEN <<>>
    ELSE LET k == FirstIn({h \in 1..Len(s) : UsfmMarkLen(Drop(s, h - 1)) > 0})
         IN  IF k = 0 THEN s
             ELSE SubSeq(s, 1, k - 1) \o <<" ">>
                    \o StripUsfmMarks(Drop(s, k - 1
                                             + UsfmMarkLen(Drop(s, k - 1))))

\* re.sub(r"\s+", " ", line); a run that is one " " already is replaced by
\* itself, so the scan stops at the other runs only
RECURSIVE CollapseSpaces(_)
CollapseSpaces(s) ==
    IF s = <<>> THEN <<>>
    ELSE LET k == FirstIn({h \in 1..Len(s) :
                              /\ IsSpace(s[h])
                              /\ \/ s[h] # " "
                                 \/ h < Len(s) /\ IsSpace(s[h + 1])})
         IN  IF k = 0 THEN s
             ELSE SubSeq(s, 1, k - 1) \o <<" ">>
                    \o CollapseSpaces(Drop(s, k - 1 + SpaceRun(Drop(s, k - 1))))

\* (?<=\w)\s*([’'])\s*(?=\w)   length of the match at the head of s, prev
\* being the atom before s in the line ("" at the start of the line)
ApostropheLen(prev, s) ==
    LET w == SpaceRun(s)
        q == IF Len(s) > w THEN s[w + 1] ELSE ""
        n == w + 1 + SpaceRun(Drop(s, w + 1))
    IN  IF /\ prev # "" /\ IsWord(prev)
           /\ q \in Apostrophes
           /\ Len(s) > n /\ IsWord(s[n + 1])
        THEN n ELSE 0

\* re.sub(r"(?<=\w)\s*([’'])\s*(?=\w)", r"\1", line)
RECURSIVE FixApostrophes(_, _)
FixApostrophes(prev, s) ==
    IF s = <<>> THEN <<>>
    ELSE LET Before(h) == IF h = 1 THEN prev ELSE s[h - 1]
             k == FirstIn({h \in 1..Len(s) :
                              ApostropheLen(Before(h), Drop(s, h - 1)) > 0})
             m == Drop(s, k - 1)
             n == ApostropheLen(Before(k), m)
         IN  IF k = 0 THEN s
             ELSE SubSeq(s, 1, k - 1) \o <<m[SpaceRun(m) + 1]>>
                    \o FixApostrophes(m[n], Drop(m, n))

\* ([‘“'\"])\s+(\w)   length of the match at the head of s
OpenQuoteLen(s) ==
    LET w == SpaceRun(Drop(s, 1))
    IN  IF /\ s # <<>> /\ s[1] \in OpenQuotes /\ w >= 1
           /\ Len(s) > w + 1 /\ IsWord(s[w + 2])
        THEN w + 2 ELSE 0

\* re.sub(r"([‘“'\"])\s+(\w)", r"\1\2", line)
RECURSIVE FixOpenQuotes(_)
FixOpenQuotes(s) ==
    IF s = <<>> THEN <<>>
    ELSE LET k == FirstIn({h \in 1..Len(s) : OpenQuoteLen(Drop(s, h - 1)) > 0})
             m == Drop(s, k - 1)
             n == OpenQuoteLen(m)
         IN  IF k = 0 THEN s
             ELSE SubSeq(s, 1, k - 1) \o <<m[1], m[n]>>
                    \o FixOpenQuotes(Drop(m, n))

\* variant: a space after a closing double quote whatever follows
RECURSIVE FixCloseDoubleQuotes_BeforeAnything(_)
FixCloseDoubleQuotes_BeforeAnything(s) ==
    IF s = <<>> THEN <<>>
    ELSE LET k == FirstIn({h \in 1..(Len(s) - 1) :
                              s[h] \in CloseDoubleQuotes})
         IN  IF k = 0 THEN s
             ELSE SubSeq(s, 1, k - 1) \o <<s[k], " ", s[k + 1]>>
                    \o FixCloseDoubleQuotes_BeforeAnything(Drop(s, k + 1))

\* re.sub(r"([”\"])(\w)", r"\1 \2", line)
RECURSIVE FixCloseDoubleQuotes(_)
FixCloseDoubleQuotes(s) ==
    IF s = <<>> THEN <<>>
    ELSE LET k == FirstIn({h \in 1..(Len(s) - 1) :
                              s[h] \in CloseDoubleQuotes /\ IsWord(s[h + 1])})
         IN  IF k = 0 THEN s
             ELSE SubSeq(s, 1, k - 1) \o <<s[k], " ", s[k + 1]>>
                    \o FixCloseDoubleQuotes(Drop(s, k + 1))

\* re.sub(r"([,.;:!?])([’'])(\w)", r"\1\2 \3", line)
RECURSIVE FixCloseSingleQuotes(_)
FixCloseSingleQuotes(s) ==
    IF s = <<>> THEN <<>>
    ELSE LET k == FirstIn({h \in 1..(Len(s) - 2) :
                              /\ s[h] \in Punct /\ s[h + 1] \in Apostrophes
                              /\ IsWord(s[h + 2])})
         IN  IF k = 0 THEN s
             ELSE SubSeq(s, 1, k - 1) \o <<s[k], s[k + 1], " ", s[k + 2]>>
                    \o FixCloseSingleQuotes(Drop(s, k + 2))

\* \s+([,.;:!?])   length of the match at the head of s
SpacePunctLen(s) ==
    LET w == SpaceRun(s)
    IN  IF w >= 1 /\ Len(s) > w /\ s[w + 1] \in Punct THEN w + 1 ELSE 0

\* re.sub(r"\s+([,.;:!?])", r"\1", line)
RECURSIVE FixSpaceBeforePunct(_)
FixSpaceBeforePunct(s) ==
    IF s = <<>> THEN <<>>
    ELSE LET k == FirstIn({h \in 1..Len(s) : SpacePunctLen(Drop(s, h - 1)) > 0})
             m == Drop(s, k - 1)
             n == SpacePunctLen(m)
         IN  IF k = 0 THEN s
             ELSE SubSeq(s, 1, k - 1) \o <<m[n]>>
                    \o FixSpaceBeforePunct(Drop(m, n))

\* the six str.replace calls that map style markers to placeholders
MapStyleMarkers(s) ==
    LET s1 == Replace(s, <<"\\", "add", "*">>, ADD_CLOSE)
        s2 == Replace(s1, <<"\\", "add", " ">>, ADD_OPEN)
        s3 == Replace(s2, <<"\\", "sc", "*">>, SC_CLOSE)
        s4 == Replace(s3, <<"\\", "sc", " ">>, SC_OPEN)
        s5 == Replace(s4, <<"\\", "sup", "*">>, SUP_CLOSE)
    IN  Replace(s5, <<"\\", "sup", " ">>, SUP_OPEN)

normalise_line(line) ==
    LET l1 == Replace(line, <<"nbsp">>, <<" ">>)
        l2 == MapStyleMarkers(l1)
        l3 == StripPipeAttrs(l2)
        l4 == StripStars(l3)
        l5 == StripUsfmMarks(l4)
        l6 == Replace(l5, <<"|">>, <<" ">>)
        l7 == Strip(CollapseSpaces(l6))
        l8 == FixApostrophes("", l7)
        l9 == FixOpenQuotes(l8)
        l10 == FixCloseDoubleQuotes(l9)
        l11 == FixCloseSingleQuotes(l10)
    IN  FixSpaceBeforePunct(l11)

(***************************************************************************)
(* Structural encoder: line classification                                 *)
(***************************************************************************)
NoChapter == -1        \* chapter = None
NoVerse == <<>>        \* current_v = None

QTagOf(n) ==
    CASE n = 0 -> "Q:0" [] n = 1 -> "Q:1" [] n = 2 -> "Q:2"
      [] n = 3 -> "Q:3" [] n = 5 -> "Q:5"

\* variant: the indent of a poetry chunk is not recorded
encode_chunk_FlatIndent(kind, indent, text) ==
    IF kind = "q" THEN <<STRUCT_DELIM, QTagOf(1), STRUCT_DELIM>> \o text
    ELSE <<STRUCT_DELIM, "P", STRUCT_DELIM>> \o text

encode_chunk(kind, indent, text) ==
    IF kind = "q" THEN <<STRUCT_DELIM, QTagOf(indent), STRUCT_DELIM>> \o text
    ELSE <<STRUCT_DELIM, "P", STRUCT_DELIM>> \o text

\* str.upper() on one lexeme
UpperAtom(a) ==
    CASE a = "jer" -> "JER" [] a = "id" -> "ID" [] OTHER -> a

\* str.split(): the whitespace-separated words
RECURSIVE Words(_)
Words(s) ==
    LET t == LStrip(s)
    IN  IF t = <<>> THEN <<>>
        ELSE LET k == CHOOSE j \in 1..Len(t) :
                        /\ \A i \in 1..j : ~IsSpace(t[i])
                        /\ (j = Len(t) \/ IsSpace(t[j + 1]))
             IN  <<SubSeq(t, 1, k)>> \o Words(Drop(t, k))

\* line.startswith("\\id ")
IsBookId(line) == StartsWith(line, <<"\\", "id", " ">>)

\* s == r"\d" or s.startswith(r"\d ")
IsHeadingIntro(s) == s = <<"\\", "d">> \/ StartsWith(s, <<"\\", "d", " ">>)

\* s == r"\p" or s == r"\p "
IsParagraphBreak(s) == s = <<"\\", "p">> \/ s = <<"\\", "p", " ">>

\* C_RE = ^\\c\s+(\d+)\s*$
C_RE(s) ==
    LET w == SpaceRun(Drop(s, 2))
    IN  IF /\ Len(s) >= 4 /\ s[1] = "\\" /\ s[2] = "c" /\ w >= 1
           /\ Len(s) > 2 + w /\ s[3 + w] \in Digits
           /\ LStrip(Drop(s, 3 + w)) = <<>>
        THEN [ok |-> TRUE, num |-> s[3 + w]]
        ELSE [ok |-> FALSE, num |-> "0"]

\* V_RE = ^\\v\s+(\d+)([a-z]?)\s+(.*)$
V_RE(s) ==
    LET w == SpaceRun(Drop(s, 2))
        k == 3 + w                       \* position of the verse number
        hasNum == /\ Len(s) >= 4 /\ s[1] = "\\" /\ s[2] = "v" /\ w >= 1
                  /\ Len(s) >= k /\ s[k] \in Digits
        withSuf == /\ hasNum /\ Len(s) > k /\ s[k + 1] \in LowerLetters
                   /\ SpaceRun(Drop(s, k + 1)) >= 1
        noSuf == hasNum /\ SpaceRun(Drop(s, k)) >= 1
    IN  IF withSuf
        THEN [ok |-> TRUE, num |-> s[k], suf |-> <<s[k + 1]>>,
              text |-> LStrip(Drop(s, k + 1))]
        ELSE IF noSuf
        THEN [ok |-> TRUE, num |-> s[k], suf |-> <<>>,
              text |-> LStrip(Drop(s, k))]
        ELSE [ok |-> FALSE, num |-> "0", suf |-> <<>>, text |-> <<>>]

\* Q_RE = ^\\q(\d*)\s+(.*)$
Q_RE(s) ==
    LET hasQ == Len(s) >= 3 /\ s[1] = "\\" /\ s[2] = "q"
        d == IF hasQ /\ s[3] \in Digits THEN 1 ELSE 0
    IN  IF hasQ /\ SpaceRun(Drop(s, 2 + d)) >= 1
        THEN [ok |-> TRUE,
              num |-> IF d = 1 THEN s[3] ELSE "1",
              text |-> LStrip(Drop(s, 2 + d))]
        ELSE [ok |-> FALSE, num |-> "1", text |-> <<>>]

\* M_RE = ^\\m\s+(.*)$
M_RE(s) ==
    IF Len(s) >= 3 /\ s[1] = "\\" /\ s[2] = "m" /\ IsSpace(s[3])
    THEN [ok |-> TRUE, text |-> LStrip(Drop(s, 2))]
    ELSE [ok |-> FALSE, text |-> <<>>]

\* P_RE = ^\\p\s+(.*)$
P_RE(s) ==
    IF Len(s) >= 3 /\ s[1] = "\\" /\ s[2] = "p" /\ IsSpace(s[3])
    THEN [ok |-> TRUE, text |-> LStrip(Drop(s, 2))]
    ELSE [ok |-> FALSE, text |-> <<>>]

(***************************************************************************)
(* Input documents: lines of the USFM file, drawn from a fixed repertoire  *)
(***************************************************************************)
MaxLines == 4

L_id == <<"\\", "id", " ", "jer", " ", "Jeremiah">>
L_d == <<"\\", "d">>
L_dtitle == <<"\\", "d", " ", "Title">>
L_p == <<"\\", "p">>
L_c1 == <<"\\", "c", " ", "1">>
L_c5 == <<" ", "\\", "c", " ", "5">>
L_v1 ==
    <<"\\", "v", " ", "1", " ", "The", " ", "word", " ", "of", " ",
      "\\", "+", "nd", " ", "LORD", "\\", "+", "nd", "*", " ", "came", ".">>
L_v2 ==
    <<"\\", "v", " ", "2", " ", "he", " ", "\\", "add", " ", "said",
      "\\", "add", "*", "\\", "f", " ", "+", " ", "\\", "fr", " ",
      "1", ":", "2", " ", "\\", "ft", " ", "Note", " ", "text",
      "\\", "f", "*", " ", ":">>
L_v2bare == <<"\\", "v", " ", "2">>
L_v2a == <<"\\", "v", " ", "2", "a", " ", "again">>
L_v3empty == <<"\\", "v", " ", "3", " ", "\\", "w", "*">>
L_q1 == <<"\\", "q", "1", " ", "Hear", ",", " ", "O", " ", "heavens", ",">>
L_q2 ==
    <<"\\", "q", "2", " ", "and", " ", "give", " ", "ear", ",", " ",
      "O", " ", "earth", ":">>
L_q == <<"\\", "q", " ", "\\", "sc", " ", "Lord", "\\", "sc", "*">>
L_m == <<"\\", "m", " ", "flush">>
L_ptext == <<"\\", "p", " ", "para">>
\* \p \w* : a paragraph marker followed by markup only
L_pempty == <<"\\", "p", " ", "\\", "w", "*">>
L_plain == <<"plain", " ", "prose">>
L_blank == <<" ">>

Lines ==
    {L_id, L_d, L_dtitle, L_p, L_c1, L_c5, L_v1, L_v2, L_v2bare, L_v2a,
     L_v3empty, L_q1, L_q2, L_q, L_m, L_ptext, L_pempty, L_plain, L_blank}

(***************************************************************************)
(* Structural encoder: parse_usfm_file                                     *)
(***************************************************************************)
VARIABLES
    book,               \* book id, <<>> for None
    chapter,            \* current chapter, NoChapter for None
    verses,             \* dict: VerseRef string -> VerseText
    current_v,          \* key of the open verse, NoVerse for None
    chunks,             \* encoded chunks of the open verse
    after_d,            \* pending heading flag
    after_p,            \* pending paragraph-start flag
    is_heading_verse,   \* heading flag as consumed by the last verse marker
    is_para,            \* paragraph flag as consumed by the last verse marker
    line,               \* the line read last
    nread,              \* number of lines read
    pc,                 \* "read" while in the line loop, then "done"
    csv_text,           \* 05_csv_to_tex main: the row's text column
    escaped_text,       \* argument of render_structured_to_latex
    parts,              \* escaped_text.split(STRUCT_DELIM)
    i,                  \* loop index into parts (1-based)
    out,                \* list of rendered pieces
    pending_heading,    \* a STYLE:HDG token awaits its payload
    rendered,           \* the rendered fragment
    dpc,                \* "row", "start", "loop", "done"; "idle" = not run
    frag_segs,          \* the pieces a raw fragment is made of
    frag_raw,           \* argument of extract_usfm_footnotes
    frag_text,          \* raw_text after extract_usfm_footnotes
    frag_t,             \* t = normalise_line(raw_text)
    fpc,                \* "raw", "extracted", "normalised"; "idle" = not run
    lxx_refs,           \* the references main sorts
    mt_ref,             \* argument of get_mt_text
    mt_text,            \* its return value, or the error it raises
    rpc                 \* "call", "returned", "raised"; "idle" = not run

encvars ==
    <<book, chapter, verses, current_v, chunks, after_d, after_p,
      is_heading_verse, is_para, line, nread, pc>>

decvars ==
    <<csv_text, escaped_text, parts, i, out, pending_heading, rendered, dpc>>

fragvars == <<frag_segs, frag_raw, frag_text, frag_t, fpc>>

refvars == <<lxx_refs, mt_ref, mt_text, rpc>>

vars == <<encvars, decvars, fragvars, refvars>>

\* raw_text = extract_usfm_footnotes(raw_text); t = normalise_line(raw_text)
ChunkText(raw_text) == normalise_line(extract_usfm_footnotes(raw_text))

\* the branch of the loop body that a line takes
LineKind(l, ch, cv) ==
    LET s == Strip(l)
    IN  IF IsBookId(l) THEN "id"
        ELSE IF IsHeadingIntro(s) THEN "d"
        ELSE IF IsParagraphBreak(s) THEN "p"
        ELSE IF C_RE(s).ok THEN "c"
        ELSE IF V_RE(s).ok /\ ch # NoChapter THEN "v"
        ELSE IF cv # NoVerse /\ s # <<>>
             THEN IF Q_RE(s).ok THEN "q"
                  ELSE IF M_RE(s).ok THEN "m"
                  ELSE IF P_RE(s).ok THEN "pm"
                  ELSE "text"
        ELSE "skip"

\* f"{chapter}:{vnum}{vsuf}"
VerseKey(ch, vnum, vsuf) == <<StrOfInt(ch), ":", StrOfInt(vnum)>> \o vsuf

\* variant: a text already stored under the reference is added to
FlushedVerses_AddsToStored ==
    IF current_v = NoVerse THEN verses
    ELSE [k \in DOMAIN verses \cup {current_v} |->
            IF k # current_v THEN verses[k]
            ELSE IF k \in DOMAIN verses
                 THEN Strip(verses[k] \o <<" ">> \o Join(chunks, <<" ">>))
                 ELSE Strip(Join(chunks, <<" ">>))]

\* variant: a reference that is already stored keeps its first text
FlushedVerses_KeepsFirst ==
    IF current_v = NoVerse THEN verses
    ELSE [k \in DOMAIN verses \cup {current_v} |->
            IF k \in DOMAIN verses THEN verses[k]
            ELSE Strip(Join(chunks, <<" ">>))]

\* verses after flush_current()
FlushedVerses ==
    IF current_v = NoVerse THEN verses
    ELSE [k \in DOMAIN verses \cup {current_v} |->
            IF k = current_v THEN Strip(Join(chunks, <<" ">>))
            ELSE verses[k]]

\* chunks after "if t: chunks.append(c)"
AppendIf(cs, t, c) == IF t # <<>> THEN Append(cs, c) ELSE cs

EncInit ==
    /\ book = <<>>
    /\ chapter = NoChapter
    /\ verses = [k \in {} |-> <<>>]
    /\ current_v = NoVerse
    /\ chunks = <<>>
    /\ after_d = FALSE
    /\ after_p = FALSE
    /\ is_heading_verse = FALSE
    /\ is_para = FALSE
    /\ line = <<>>
    /\ nread = 0
    /\ pc = "read"

\* for raw in f: line = raw.rstrip("\n")
Read(l, kind) ==
    /\ pc = "read"
    /\ nread < MaxLines
    /\ LineKind(l, chapter, current_v) = kind
    /\ line' = l
    /\ nread' = nread + 1
    /\ pc' = pc
    /\ UNCHANGED <<decvars, fragvars, refvars>>

BookIdLine(l) ==
    /\ Read(l, "id")
    /\ book' = IF Len(Words(Strip(l))) >= 2
               THEN [j \in 1..Len(Words(Strip(l))[2]) |->
                        UpperAtom(Words(Strip(l))[2][j])]
               ELSE book
    /\ UNCHANGED <<chapter, verses, current_v, chunks, after_d, after_p,
                   is_heading_verse, is_para>>

HeadingIntroLine(l) ==
    /\ Read(l, "d")
    /\ after_d' = TRUE
    /\ UNCHANGED <<book, chapter, verses, current_v, chunks, after_p,
                   is_heading_verse, is_para>>

ParagraphBreakLine(l) ==
    /\ Read(l, "p")
    /\ after_p' = TRUE
    /\ UNCHANGED <<book, chapter, verses, current_v, chunks, after_d,
                   is_heading_verse, is_para>>

\* variant: the verse stays open across the chapter marker
ChapterLine_VerseStaysOpen(l) ==
    /\ Read(l, "c")
    /\ verses' = FlushedVerses
    /\ chunks' = <<>>
    /\ chapter' = IntOf(C_RE(Strip(l)).num)
    /\ current_v' = current_v
    /\ UNCHANGED <<book, after_d, after_p, is_heading_verse, is_para>>

ChapterLine(l) ==
    /\ Read(l, "c")
    /\ verses' = FlushedVerses
    /\ chunks' = <<>>
    /\ chapter' = IntOf(C_RE(Strip(l)).num)
    /\ current_v' = NoVerse
    /\ UNCHANGED <<book, after_d, after_p, is_heading_verse, is_para>>

\* the chunk a verse marker starts the verse with
\* variant: the heading tag is prepended after the paragraph tag
VerseChunk_HdgLast(t, hdg, para) ==
    LET t1 == IF para THEN STYLE_PARA \o t ELSE t
        t2 == IF hdg THEN STYLE_HDG \o t1 ELSE t1
    IN  encode_chunk("p", 0, t2)

VerseChunk(t, hdg, para) ==
    LET t1 == IF hdg THEN STYLE_HDG \o t ELSE t
        t2 == IF para THEN STYLE_PARA \o t1 ELSE t1
    IN  encode_chunk("p", 0, t2)

\* variant: the heading flag survives the verse marker
VerseLine_StickyFlags(l) ==
    /\ Read(l, "v")
    /\ LET m == V_RE(Strip(l))
           t == ChunkText(m.text)
       IN  /\ verses' = FlushedVerses
           /\ current_v' = VerseKey(chapter, IntOf(m.num), m.suf)
           /\ is_heading_verse' = after_d
           /\ is_para' = after_p
           /\ after_d' = after_d
           /\ after_p' = FALSE
           /\ chunks' = AppendIf(<<>>, t, VerseChunk(t, after_d, after_p))
    /\ UNCHANGED <<book, chapter>>

VerseLine(l) ==
    /\ Read(l, "v")
    /\ LET m == V_RE(Strip(l))
           t == ChunkText(m.text)
       IN  /\ verses' = FlushedVerses
           /\ current_v' = VerseKey(chapter, IntOf(m.num), m.suf)
           /\ is_heading_verse' = after_d
           /\ is_para' = after_p
           /\ after_d' = FALSE
           /\ after_p' = FALSE
           /\ chunks' = AppendIf(<<>>, t, VerseChunk(t, after_d, after_p))
    /\ UNCHANGED <<book, chapter>>

PoetryLine(l) ==
    /\ Read(l, "q")
    /\ LET qm == Q_RE(Strip(l))
           t == ChunkText(qm.text)
       IN  chunks' = AppendIf(chunks, t, encode_chunk("q", IntOf(qm.num), t))
    /\ UNCHANGED <<book, chapter, verses, current_v, after_d, after_p,
                   is_heading_verse, is_para>>

FlushLeftLine(l) ==
    /\ Read(l, "m")
    /\ LET t == ChunkText(M_RE(Strip(l)).text)
       IN  chunks' = AppendIf(chunks, t, encode_chunk("q", 1, t))
    /\ UNCHANGED <<book, chapter, verses, current_v, after_d, after_p,
                   is_heading_verse, is_para>>

ParagraphLine(l) ==
    /\ Read(l, "pm")
    /\ LET t == ChunkText(STYLE_PARA \o P_RE(Strip(l)).text)
       IN  chunks' = AppendIf(chunks, t, encode_chunk("p", 0, t))
    /\ UNCHANGED <<book, chapter, verses, current_v, after_d, after_p,
                   is_heading_verse, is_para>>

\* variant: a plain continuation line consumes the paragraph flag
DefaultLine_ConsumesFlag(l) ==
    /\ Read(l, "text")
    /\ LET t == ChunkText(Strip(l))
       IN  chunks' = AppendIf(chunks, t,
                       encode_chunk("p", 0,
                         IF after_p THEN STYLE_PARA \o t ELSE t))
    /\ after_p' = FALSE
    /\ UNCHANGED <<book, chapter, verses, current_v, after_d,
                   is_heading_verse, is_para>>

DefaultLine(l) ==
    /\ Read(l, "text")
    /\ LET t == ChunkText(Strip(l))
       IN  chunks' = AppendIf(chunks, t, encode_chunk("p", 0, t))
    /\ UNCHANGED <<book, chapter, verses, current_v, after_d, after_p,
                   is_heading_verse, is_para>>

\* a line that matches no branch: blank, or text outside any verse
SkippedLine(l) ==
    /\ Read(l, "skip")
    /\ UNCHANGED <<book, chapter, verses, current_v, chunks, after_d,
                   after_p, is_heading_verse, is_para>>

\* end of file: the final flush_current() and return
EndOfInput ==
    /\ pc = "read"
    /\ pc' = "done"
    /\ verses' = FlushedVerses
    /\ chunks' = <<>>
    /\ UNCHANGED <<book, chapter, current_v, after_d, after_p,
                   is_heading_verse, is_para, line, nread>>
    /\ UNCHANGED <<decvars, fragvars, refvars>>

Next ==
    \/ \E l \in Lines : BookIdLine(l)
    \/ \E l \in Lines : HeadingIntroLine(l)
    \/ \E l \in Lines : ParagraphBreakLine(l)
    \/ \E l \in Lines : ChapterLine(l)
    \/ \E l \in Lines : VerseLine(l)
    \/ \E l \in Lines : PoetryLine(l)
    \/ \E l \in Lines : FlushLeftLine(l)
    \/ \E l \in Lines : ParagraphLine(l)
    \/ \E l \in Lines : DefaultLine(l)
    \/ \E l \in Lines : SkippedLine(l)
    \/ EndOfInput

(***************************************************************************)
(* LaTeX generator: escaping and placeholder substitution                  *)
(***************************************************************************)
\* esc: the ten str.replace calls, in source order
esc(s) ==
    LET s1 == Replace(s, <<"\\">>, <<"\\textbackslash", "{", "}">>)
        s2 == Replace(s1, <<"&">>, <<"\\&">>)
        s3 == Replace(s2, <<"%">>, <<"\\%">>)
        s4 == Replace(s3, <<"$">>, <<"\\$">>)
        s5 == Replace(s4, <<"#">>, <<"\\#">>)
        s6 == Replace(s5, <<"_">>, <<"\\_">>)
        s7 == Replace(s6, <<"{">>, <<"\\{">>)
        s8 == Replace(s7, <<"}">>, <<"\\}">>)
        s9 == Replace(s8, <<"~">>, <<"\\textasciitilde", "{", "}">>)
    IN  Replace(s9, <<"^">>, <<"\\textasciicircum", "{", "}">>)

HebrewRun(s) ==
    CHOOSE n \in 0..Len(s) :
        /\ \A k \in 1..n : s[k] = "heb"
        /\ n = Len(s) \/ s[n + 1] # "heb"

\* HEBREW_RE.sub(lambda m: r'\texthebrew{' + m.group(0) + '}', text)
RECURSIVE wrap_hebrew(_)
wrap_hebrew(text) ==
    IF text = <<>> THEN <<>>
    ELSE LET k == IndexOf(text, <<"heb">>, 1)
             m == Drop(text, k - 1)
         IN  IF k = 0 THEN text
             ELSE SubSeq(text, 1, k - 1) \o <<"\\texthebrew{">>
                    \o SubSeq(m, 1, HebrewRun(m)) \o <<"}">>
                    \o wrap_hebrew(Drop(m, HebrewRun(m)))

\* variant: the style placeholders are left in the text
render_markers_Noop(escaped) == escaped

render_markers(escaped) ==
    LET s1 == Replace(escaped, ADD_OPEN, <<"\\textit{">>)
        s2 == Replace(s1, ADD_CLOSE, <<"}">>)
        s3 == Replace(s2, SC_OPEN, <<"\\textsc{">>)
        s4 == Replace(s3, SC_CLOSE, <<"}">>)
        s5 == Replace(s4, SUP_OPEN, <<"\\textsuperscript{">>)
    IN  Replace(s5, SUP_CLOSE, <<"}">>)

\* the loop of inject_latex_footnotes from index k (1-based, k even) on
RECURSIVE InjectFrom(_, _)
InjectFrom(ps, k) ==
    IF k > Len(ps) THEN <<>>
    ELSE LET fn == Strip(ps[k])
             note == IF fn # <<>> THEN <<"\\footnote{">> \o fn \o <<"}">>
                     ELSE <<>>
             text == IF k + 1 <= Len(ps) THEN ps[k + 1] ELSE <<>>
         IN  note \o text \o InjectFrom(ps, k + 2)

inject_latex_footnotes(escaped) ==
    LET ps == Split(escaped, FOOTNOTE_DELIM)
    IN  IF Len(ps) = 1 THEN escaped ELSE ps[1] \o InjectFrom(ps, 2)

(***************************************************************************)
(* Structural decoder: render_structured_to_latex                          *)
(***************************************************************************)
PILCROW == "PILCROW"       \* {\small\textparagraph\thinspace}

render_heading_verse(text) ==
    <<"\\DescriptiveHeading{">> \o Strip(text) \o <<"}">>

\* int(token[2:]) if token[2:].isdigit() else 1
QIndent(token) ==
    IF Len(token) = 1 /\ token[1] # "Q:"
    THEN CASE token[1] = "Q:0" -> 0 [] token[1] = "Q:1" -> 1
           [] token[1] = "Q:2" -> 2 [] token[1] = "Q:3" -> 3
           [] token[1] = "Q:5" -> 5
    ELSE IF Len(token) = 2 /\ token[1] = "Q:" /\ token[2] \in Digits
         THEN IntOf(token[2])
    ELSE 1

\* the branch of the token loop taken at parts[k]
TokenKind(ps, k) ==
    IF ps[k] = <<"STYLE:HDG">> THEN "hdg"
    ELSE IF ps[k] # <<>> /\ ps[k][1] \in QTags THEN "q"
    ELSE IF ps[k] = <<"P">> THEN "p"
    ELSE "text"

\* a payload, wrapped as a heading when one is pending
Payload(seg, pending) ==
    IF pending THEN render_heading_verse(seg) \o <<" ">>
    ELSE Strip(seg) \o <<" ">>

\* the branches of the while loop; st = [i, out, pending_heading]

\* if token == "STYLE:HDG"
StepStyleHdg(ps, st) ==
    [i |-> st.i + 1, out |-> st.out, pending_heading |-> TRUE]

\* variant: a poetry tag without payload still emits a poem line
StepPoetry_DanglingEmits(ps, st) ==
    IF st.i < Len(ps)
    THEN [i |-> st.i + 2,
          out |-> Append(st.out,
                     <<"\\poemline{", StrOfInt(QIndent(ps[st.i])), "}{">>
                       \o Strip(ps[st.i + 1]) \o <<"}">>),
          pending_heading |-> st.pending_heading]
    ELSE [i |-> st.i + 1,
          out |-> Append(st.out,
                     <<"\\poemline{", StrOfInt(QIndent(ps[st.i])), "}{",
                       "}">>),
          pending_heading |-> st.pending_heading]

\* if token.startswith("Q:")
StepPoetry(ps, st) ==
    IF st.i < Len(ps)
    THEN [i |-> st.i + 2,
          out |-> Append(st.out,
                     <<"\\poemline{", StrOfInt(QIndent(ps[st.i])), "}{">>
                       \o Strip(ps[st.i + 1]) \o <<"}">>),
          pending_heading |-> st.pending_heading]
    ELSE [i |-> st.i + 1, out |-> st.out,
          pending_heading |-> st.pending_heading]

\* elif token == "P"
StepProse(ps, st) ==
    LET n == Len(ps)
        para == st.i + 1 < n /\ ps[st.i + 2] = <<"STYLE:PARA">>
        k1 == IF para THEN st.i + 2 ELSE st.i
        out1 == IF para
                THEN Append(st.out,
                       IF st.out # <<>> THEN <<"\\par", PILCROW>>
                       ELSE <<PILCROW>>)
                ELSE st.out
    IN  IF k1 < n
        THEN IF Strip(ps[k1 + 1]) # <<>>
             THEN [i |-> k1 + 2,
                   out |-> Append(out1,
                             Payload(ps[k1 + 1], st.pending_heading)),
                   pending_heading |-> FALSE]
             ELSE [i |-> k1 + 2, out |-> out1,
                   pending_heading |-> st.pending_heading]
        ELSE [i |-> k1 + 1, out |-> out1,
              pending_heading |-> st.pending_heading]

\* variant: a fallback payload is wrapped but the flag stays set
StepFallback_FlagStays(ps, st) ==
    IF Strip(ps[st.i]) # <<>>
    THEN [i |-> st.i + 1,
          out |-> Append(st.out, Payload(ps[st.i], st.pending_heading)),
          pending_heading |-> st.pending_heading]
    ELSE [i |-> st.i + 1, out |-> st.out,
          pending_heading |-> st.pending_heading]

\* else: plain text token
StepFallback(ps, st) ==
    IF Strip(ps[st.i]) # <<>>
    THEN [i |-> st.i + 1,
          out |-> Append(st.out, Payload(ps[st.i], st.pending_heading)),
          pending_heading |-> FALSE]
    ELSE [i |-> st.i + 1, out |-> st.out,
          pending_heading |-> st.pending_heading]

\* one iteration of the while loop
DecStep(ps, st) ==
    LET kind == TokenKind(ps, st.i)
    IN  IF kind = "hdg" THEN StepStyleHdg(ps, st)
        ELSE IF kind = "q" THEN StepPoetry(ps, st)
        ELSE IF kind = "p" THEN StepProse(ps, st)
        ELSE StepFallback(ps, st)

\* r"\poemline" in rendered
HasPoemline(s) ==
    \/ \E k \in 1..Len(s) : s[k] = "\\poemline{"
    \/ Contains(s, <<"\\", "poemline">>)

\* variant: the pieces are joined with the delimiter they were split on
FinishRender_JoinsOnDelim(o) ==
    LET r == Strip(Join(o, <<STRUCT_DELIM>>))
    IN  IF HasPoemline(r) THEN <<"{\\raggedright ">> \o r \o <<"}">> ELSE r

\* "".join(out).strip(), wrapped when a poem line was emitted
FinishRender(o) ==
    LET r == Strip(Join(o, <<>>))
    IN  IF HasPoemline(r) THEN <<"{\\raggedright ">> \o r \o <<"}">> ELSE r

RECURSIVE DecLoop(_, _)
DecLoop(ps, st) ==
    IF st.i > Len(ps) THEN st ELSE DecLoop(ps, DecStep(ps, st))

\* the general path: the token loop over a split stream
RenderTokens(ps) ==
    FinishRender(DecLoop(ps, [i |-> 1, out |-> <<>>,
                              pending_heading |-> FALSE]).out)

HasDelim(s) == \E k \in 1..Len(s) : s[k] = STRUCT_DELIM

render_structured_to_latex(escaped) ==
    IF ~HasDelim(escaped) THEN escaped
    ELSE RenderTokens(Split(escaped, <<STRUCT_DELIM>>))

\* main: the text column of one row, 05_csv_to_tex.py 169-170
RenderInline(text) ==
    inject_latex_footnotes(render_markers(wrap_hebrew(esc(text))))

Decode(text) == render_structured_to_latex(RenderInline(text))

(***************************************************************************)
(* Decoder inputs: texts made of up to MaxParts segments.  A segment is a  *)
(* piece of text, a word that is also a tag name, the reserved delimiter   *)
(* alone, a tag between its delimiters, or a placeholder, so that the      *)
(* well-formed streams of the encoder and malformed ones both occur.       *)
(***************************************************************************)
MaxParts == 3

TextSegments == {<<"a">>, <<" ">>, <<"P">>, <<"Q:2">>, <<"STYLE:HDG">>}

TagSegments ==
    {<<STRUCT_DELIM>>, <<STRUCT_DELIM, "P", STRUCT_DELIM>>,
     <<STRUCT_DELIM, "Q:2", STRUCT_DELIM>>, STYLE_HDG, STYLE_PARA}

PlaceholderSegments ==
    {FOOTNOTE_DELIM, ADD_OPEN, ADD_CLOSE, SC_OPEN, SC_CLOSE, SUP_OPEN,
     SUP_CLOSE}

Segments == TextSegments \cup TagSegments \cup PlaceholderSegments

SegmentSeqs(S) == UNION {[1..n -> S] : n \in 1..MaxParts}

\* a text column of the CSV holds no LaTeX command: esc would break it up
IsCsvText(text) == \A k \in 1..Len(text) : text[k] \notin LatexCommands

\* the text columns of the CSV rows
DecInputs == {Join(ps, <<>>) : ps \in SegmentSeqs(Segments)}

\* arguments of a direct call of render_structured_to_latex: text that is
\* already LaTeX may hold a poem-line command
DirectInputs ==
    {Join(ps, <<>>) : ps \in SegmentSeqs(Segments \cup {<<"\\poemline{">>})}

(***************************************************************************)
(* LaTeX generator as a state machine: one row of main()                   *)
(***************************************************************************)
DecIdle ==
    /\ csv_text = <<>>
    /\ escaped_text = <<>>
    /\ parts = <<>>
    /\ i = 1
    /\ out = <<>>
    /\ pending_heading = FALSE
    /\ rendered = <<>>
    /\ dpc = "idle"

DecInit ==
    /\ csv_text \in DirectInputs
    /\ escaped_text = <<>>
    /\ parts = <<>>
    /\ i = 1
    /\ out = <<>>
    /\ pending_heading = FALSE
    /\ rendered = <<>>
    /\ dpc = "row"

\* render_structured_to_latex(inject_latex_footnotes(render_markers(
\*     wrap_hebrew(esc(text))))): the argument is evaluated first
CallRender ==
    /\ dpc = "row"
    /\ IsCsvText(csv_text)
    /\ escaped_text' = RenderInline(csv_text)
    /\ dpc' = "start"
    /\ UNCHANGED <<csv_text, parts, i, out, pending_heading, rendered>>
    /\ UNCHANGED <<encvars, fragvars, refvars>>

\* render_structured_to_latex(text) called on its own
CallDirect ==
    /\ dpc = "row"
    /\ escaped_text' = csv_text
    /\ dpc' = "start"
    /\ UNCHANGED <<csv_text, parts, i, out, pending_heading, rendered>>
    /\ UNCHANGED <<encvars, fragvars, refvars>>

\* variant: the fast path strips the text as the general path does
FastPath_Strips ==
    /\ dpc = "start"
    /\ ~HasDelim(escaped_text)
    /\ rendered' = Strip(escaped_text)
    /\ dpc' = "done"
    /\ UNCHANGED <<csv_text, escaped_text, parts, i, out, pending_heading>>
    /\ UNCHANGED <<encvars, fragvars, refvars>>

\* if STRUCT_DELIM not in escaped_text: return escaped_text
FastPath ==
    /\ dpc = "start"
    /\ ~HasDelim(escaped_text)
    /\ rendered' = escaped_text
    /\ dpc' = "done"
    /\ UNCHANGED <<csv_text, escaped_text, parts, i, out, pending_heading>>
    /\ UNCHANGED <<encvars, fragvars, refvars>>

SplitTokens ==
    /\ dpc = "start"
    /\ HasDelim(escaped_text)
    /\ parts' = Split(escaped_text, <<STRUCT_DELIM>>)
    /\ i' = 1
    /\ out' = <<>>
    /\ pending_heading' = FALSE
    /\ dpc' = "loop"
    /\ UNCHANGED <<csv_text, escaped_text, rendered>>
    /\ UNCHANGED <<encvars, fragvars, refvars>>

\* one iteration of "while i < len(parts)" on a token of the given kind
Token(kind) ==
    /\ dpc = "loop"
    /\ i <= Len(parts)
    /\ TokenKind(parts, i) = kind
    /\ LET st == DecStep(parts, [i |-> i, out |-> out,
                                 pending_heading |-> pending_heading])
       IN  /\ i' = st.i
           /\ out' = st.out
           /\ pending_heading' = st.pending_heading
    /\ UNCHANGED <<csv_text, escaped_text, parts, rendered, dpc>>
    /\ UNCHANGED <<encvars, fragvars, refvars>>

TokStyleHdg == Token("hdg")
TokPoetry == Token("q")
TokProse == Token("p")
TokFallback == Token("text")

FinishLoop ==
    /\ dpc = "loop"
    /\ i > Len(parts)
    /\ rendered' = FinishRender(out)
    /\ dpc' = "done"
    /\ UNCHANGED <<csv_text, escaped_text, parts, i, out, pending_heading>>
    /\ UNCHANGED <<encvars, fragvars, refvars>>

DecNext ==
    \/ CallRender
    \/ CallDirect
    \/ FastPath
    \/ SplitTokens
    \/ TokStyleHdg
    \/ TokPoetry
    \/ TokProse
    \/ TokFallback
    \/ FinishLoop

(***************************************************************************)
(* Raw fragments of a USFM line                                            *)
(***************************************************************************)
MaxSegs == 4

\* \f + : a footnote opens
F_open == <<"\\", "f", " ", "+", " ">>
\* \fr 1:2 : its reference piece
F_ref == <<"\\", "fr", " ", "1", ":", "2", " ">>
\* \ft Note text : a body piece
F_body == <<"\\", "ft", " ", "Note", " ", "text">>
\* \ft : a body piece of whitespace only
F_blank == <<"\\", "ft", " ">>
\* \f* : the footnote closes
F_close == <<"\\", "f", "*">>
\* \+wh two\+wh* : nested character style inside a footnote
F_plus == <<"\\", "+", "wh", " ", "two", "\\", "+", "wh", "*">>
T_word == <<"a">>

FootnoteSegments ==
    {F_open, F_ref, F_body, F_blank, F_close, F_plus, T_word}

\* text that holds no marker and no placeholder
PlainSegments ==
    {<<"a">>, <<" ">>, <<"'">>, <<"\"">>, <<",">>, <<"rdquo">>}

FragSeqs(S) == UNION {[1..n -> S] : n \in 1..MaxSegs}

FragInputs == FragSeqs(FootnoteSegments) \cup FragSeqs(PlainSegments)

(***************************************************************************)
(* parse_usfm_file 272-273: one fragment through the extractor and the     *)
(* normaliser                                                              *)
(***************************************************************************)
FragIdle ==
    /\ frag_segs = <<>>
    /\ frag_raw = <<>>
    /\ frag_text = <<>>
    /\ frag_t = <<>>
    /\ fpc = "idle"

FragInit ==
    /\ frag_segs \in FragInputs
    /\ frag_raw = Join(frag_segs, <<>>)
    /\ frag_text = <<>>
    /\ frag_t = <<>>
    /\ fpc = "raw"

\* raw_text = extract_usfm_footnotes(raw_text)
ExtractFootnotes ==
    /\ fpc = "raw"
    /\ frag_text' = extract_usfm_footnotes(frag_raw)
    /\ fpc' = "extracted"
    /\ UNCHANGED <<frag_segs, frag_raw, frag_t>>
    /\ UNCHANGED <<encvars, decvars, refvars>>

\* t = normalise_line(raw_text)
NormaliseFragment ==
    /\ fpc = "extracted"
    /\ frag_t' = normalise_line(frag_text)
    /\ fpc' = "normalised"
    /\ UNCHANGED <<frag_segs, frag_raw, frag_text>>
    /\ UNCHANGED <<encvars, decvars, refvars>>

FragNext ==
    \/ ExtractFootnotes
    \/ NormaliseFragment

(***************************************************************************)
(* References (04_build_parallel_csv.py 10-64; 03_make_mapping_skeleton.py *)
(* 11-33).  A reference string is a sequence of atoms: a decimal numeral,  *)
(* ":", a numeral, and an optional letter.                                 *)
(***************************************************************************)
\* \d+ : the numerals of the model, and int() of one
NumeralValue ==
    [a \in {ToString(n) : n \in 0..99} |->
        CHOOSE n \in 0..99 : ToString(n) = a]

IsNumeral(a) == a \in DOMAIN NumeralValue

IntOfNumeral(a) == NumeralValue[a]

\* [a-z] and ord(suf) - ord("a") + 1
Alphabet == <<"a", "b", "c">>

SufOrd(suf) ==
    IF suf = <<>> THEN 0
    ELSE CHOOSE k \in 1..Len(Alphabet) : Alphabet[k] = suf[1]

\* REF_RE = ^(\d+):(\d+)([a-z]?)$
REF_RE(s) ==
    /\ Len(s) \in {3, 4}
    /\ IsNumeral(s[1]) /\ s[2] = ":" /\ IsNumeral(s[3])
    /\ Len(s) = 4 => \E k \in 1..Len(Alphabet) : Alphabet[k] = s[4]

\* parse_ref: (ch, v, suf), or ValueError
parse_ref(ref) ==
    LET s == Strip(ref)
    IN  IF REF_RE(s)
        THEN [raised |-> FALSE, ch |-> IntOfNumeral(s[1]),
              v |-> IntOfNumeral(s[3]), suf |-> Drop(s, 3)]
        ELSE [raised |-> TRUE, ch |-> 0, v |-> 0, suf |-> <<>>]

\* variant: the suffix does not enter the key
ref_sort_key_SuffixIgnored(ref) ==
    LET p == parse_ref(ref)
    IN  <<p.ch, p.v, 0>>

\* ref_sort_key: (ch, v, suf_ord)
ref_sort_key(ref) ==
    LET p == parse_ref(ref)
    IN  <<p.ch, p.v, SufOrd(p.suf)>>

\* tuple comparison of two keys
KeyLess(x, y) ==
    \/ x[1] < y[1]
    \/ x[1] = y[1] /\ x[2] < y[2]
    \/ x[1] = y[1] /\ x[2] = y[2] /\ x[3] < y[3]

\* list.sort(key=ref_sort_key): stable, by insertion from the left
RECURSIVE SortedByKey(_)
SortedByKey(refs) ==
    IF refs = <<>> THEN <<>>
    ELSE LET front == SortedByKey(SubSeq(refs, 1, Len(refs) - 1))
             r == refs[Len(refs)]
             n == Cardinality({k \in 1..Len(front) :
                                  ~KeyLess(ref_sort_key(r),
                                           ref_sort_key(front[k]))})
         IN  SubSeq(front, 1, n) \o <<r>> \o Drop(front, n)

\* RANGE_RE = ^(\d+:\d+)\s*-\s*(\d+:\d+)$
RANGE_RE(s) ==
    LET k == IndexOf(s, <<"-">>, 1)
        start == IF k = 0 THEN <<>> ELSE RStrip(SubSeq(s, 1, k - 1))
        end == IF k = 0 THEN <<>> ELSE LStrip(Drop(s, k))
    IN  IF /\ k # 0
           /\ Len(start) = 3 /\ REF_RE(start)
           /\ Len(end) = 3 /\ REF_RE(end)
           /\ SubSeq(s, 1, 3) = start /\ Drop(s, Len(s) - 3) = end
        THEN [ok |-> TRUE, start |-> start, end |-> end]
        ELSE [ok |-> FALSE, start |-> <<>>, end |-> <<>>]

\* variant: the end of the range is left out
expand_range_HalfOpen(start, end) ==
    LET s == parse_ref(start)
        e == parse_ref(end)
    IN  IF s.suf # <<>> \/ e.suf # <<>> \/ s.ch # e.ch
        THEN [raised |-> TRUE, refs |-> <<>>]
        ELSE [raised |-> FALSE,
              refs |-> [k \in 1..(IF e.v > s.v THEN e.v - s.v ELSE 0) |->
                          <<ToString(s.ch), ":", ToString(s.v + k - 1)>>]]

\* expand_range: the references start..end, or ValueError
expand_range(start, end) ==
    LET s == parse_ref(start)
        e == parse_ref(end)
    IN  IF s.suf # <<>> \/ e.suf # <<>> \/ s.ch # e.ch
        THEN [raised |-> TRUE, refs |-> <<>>]
        ELSE [raised |-> FALSE,
              refs |-> [k \in 1..(IF e.v >= s.v THEN e.v - s.v + 1 ELSE 0) |->
                          <<ToString(s.ch), ":", ToString(s.v + k - 1)>>]]

\* the secondary texts by reference (web_JER.json)
mt_dict ==
    (<<"24", ":", "40">> :> <<"forty">>)
      @@ (<<"24", ":", "41">> :> <<"one">>)
      @@ (<<"24", ":", "42">> :> <<"two">>)
      @@ (<<"24", ":", "43">> :> <<"three">>)
      @@ (<<"24", ":", "44">> :> <<>>)
      @@ (<<"24", ":", "45">> :> <<"five">>)
      @@ (<<"25", ":", "40">> :> <<"next">>)

\* mt_dict.get(r, "")
DictGet(r) == IF r \in DOMAIN mt_dict THEN mt_dict[r] ELSE <<>>

\* get_mt_text: the text, or the ValueError of expand_range
get_mt_text(ref) ==
    LET s == Strip(ref)
        m == RANGE_RE(s)
        x == expand_range(m.start, m.end)
        texts == [k \in 1..Len(x.refs) |-> DictGet(x.refs[k])]
    IN  IF s = <<>> THEN [raised |-> FALSE, text |-> <<>>]
        ELSE IF m.ok
             THEN IF x.raised THEN [raised |-> TRUE, text |-> <<>>]
                  ELSE [raised |-> FALSE,
                        text |-> Strip(Join(SelectSeq(texts,
                                                      LAMBDA t : t # <<>>),
                                            <<" ">>))]
        ELSE [raised |-> FALSE, text |-> DictGet(s)]

(***************************************************************************)
(* Inputs of the reference functions                                       *)
(***************************************************************************)
MaxRefs == 3

\* the reference strings of the mapping: chapter:verse and optional letter
RefStrings ==
    {<<ToString(c), ":", ToString(v)>> \o suf :
        c \in {24, 25}, v \in {40, 41, 45}, suf \in {<<>>, <<"a">>, <<"b">>}}

\* the mt_ref column: empty, blank, one reference, or a range start-end
\* written with or without spaces around the dash
MtRefInputs ==
    {<<>>, <<" ">>}
      \cup RefStrings
      \cup {<<" ">> \o r \o <<" ">> : r \in RefStrings}
      \cup {a \o d \o b : a \in RefStrings, b \in RefStrings,
                          d \in {<<"-">>, <<" ", "-", " ">>}}

LxxRefInputs == UNION {[1..n -> RefStrings] : n \in 1..MaxRefs}

RefIdle ==
    /\ lxx_refs = <<>>
    /\ mt_ref = <<>>
    /\ mt_text = <<>>
    /\ rpc = "idle"

\* one row's mt_ref before get_mt_text, or the rows before the sort
RefInit ==
    \/ /\ rpc = "call"
       /\ mt_ref \in MtRefInputs
       /\ lxx_refs = <<>>
       /\ mt_text = <<>>
    \/ /\ rpc = "rows"
       /\ lxx_refs \in LxxRefInputs
       /\ mt_ref = <<>>
       /\ mt_text = <<>>

\* mt_txt = get_mt_text(mt_dict, mt_ref)
CallGetMtText ==
    /\ rpc = "call"
    /\ LET res == get_mt_text(mt_ref)
       IN  /\ mt_text' = res.text
           /\ rpc' = IF res.raised THEN "raised" ELSE "returned"
    /\ UNCHANGED <<lxx_refs, mt_ref>>
    /\ UNCHANGED <<encvars, decvars, fragvars>>

\* rows.sort(key=lambda x: ref_sort_key(x["lxx_ref"]))
SortRows ==
    /\ rpc = "rows"
    /\ lxx_refs' = SortedByKey(lxx_refs)
    /\ rpc' = "sorted"
    /\ UNCHANGED <<mt_ref, mt_text>>
    /\ UNCHANGED <<encvars, decvars, fragvars>>

RefNext ==
    \/ CallGetMtText
    \/ SortRows

(***************************************************************************)
(* Specifications                                                          *)
(***************************************************************************)
Init == EncInit /\ DecIdle /\ FragIdle /\ RefIdle

\* the encoder run over one document
Spec == Init /\ [][Next]_vars

\* the LaTeX generator run over one text column
InitDec == DecInit /\ EncInit /\ FragIdle /\ RefIdle

SpecDec == InitDec /\ [][DecNext]_vars

\* one raw fragment through the footnote extractor and the normaliser
InitFrag == FragInit /\ EncInit /\ DecIdle /\ RefIdle

SpecFrag == InitFrag /\ [][FragNext]_vars

\* the reference functions over one mt_ref or one list of rows
InitRef == RefInit /\ EncInit /\ DecIdle /\ FragIdle

SpecRef == InitRef /\ [][RefNext]_vars

(***************************************************************************)
(* Vocabulary of the properties                                            *)
(***************************************************************************)
\* the step just taken read a line that took the given branch
ReadKind(kind) ==
    /\ pc = "read" /\ nread' = nread + 1
    /\ \E l \in {line'} : LineKind(l, chapter, current_v) = kind

ContinuationKinds == {"q", "m", "pm", "text"}

\* the VerseText a flush would store for the open verse
OpenText == Strip(Join(chunks, <<" ">>))

HasHdgTag(text) == Contains(text, STYLE_HDG)
HasParaTag(text) == Contains(text, STYLE_PARA)

\* the fragment contains a heading-emphasis command
HasHeadingCmd(frag) == \E k \in 1..Len(frag) : frag[k] = "\\DescriptiveHeading{"

\* a verse-marker line as the USFM format defines it: \v, a number, an
\* optional single lowercase letter, and optionally text after it
IsVerseMarkerLine(l) ==
    LET s == Strip(l)
        w == SpaceRun(Drop(s, 2))
        k == 3 + w
    IN  /\ Len(s) >= k /\ s[1] = "\\" /\ s[2] = "v" /\ w >= 1
        /\ s[k] \in Digits
        /\ \/ Len(s) = k
           \/ IsSpace(s[k + 1])
           \/ /\ s[k + 1] \in LowerLetters
              /\ (Len(s) = k + 1 \/ IsSpace(s[k + 2]))

\* the "chapter:verse[suffix]" key such a line names
MarkerKey(ch, l) ==
    LET s == Strip(l)
        k == 3 + SpaceRun(Drop(s, 2))
    IN  <<StrOfInt(ch), ":", StrOfInt(IntOf(s[k]))>>
          \o (IF Len(s) > k /\ s[k + 1] \in LowerLetters
              THEN <<s[k + 1]>> ELSE <<>>)

(***************************************************************************)
(* C1: once a chapter marker has been seen, every verse-marker line, with  *)
(* or without text after the verse number, flushes the open verse and      *)
(* opens the verse "chapter:verse[suffix]"; it is never appended as a      *)
(* continuation chunk of the previously open verse.                        *)
(* Fails: V_RE demands whitespace after the number, so the bare marker     *)
(* "\v 2" falls through to the continuation branches.                      *)
(***************************************************************************)
C1_VerseMarkerOpensVerse ==
    [][(/\ pc = "read" /\ nread' = nread + 1
        /\ chapter # NoChapter
        /\ IsVerseMarkerLine(line'))
       => (/\ current_v' = MarkerKey(chapter, line')
           /\ verses' = FlushedVerses
           /\ Len(chunks') <= 1)]_vars

(***************************************************************************)
(* C2: the pending flags are single-use.  Every verse marker that opens a  *)
(* verse takes the flags over and leaves both clear; a verse opened while  *)
(* no heading was pending never carries the heading tag and never decodes  *)
(* to a heading-emphasis command, whatever lines follow it; a verse opened *)
(* under the heading flag with non-empty text carries the tag, and a text  *)
(* that carries the tag decodes to a heading-emphasis command; a flush     *)
(* stores exactly that text.                                               *)
(***************************************************************************)
C2_FlagsSingleUse ==
    /\ [][/\ ReadKind("v")
               => /\ ~after_d' /\ ~after_p'
                  /\ is_heading_verse' = after_d
                  /\ (after_d /\ chunks' # <<>>) => HasHdgTag(chunks'[1])
          /\ ~ReadKind("v") => is_heading_verse' = is_heading_verse
          /\ (current_v # NoVerse
                /\ (ReadKind("v") \/ ReadKind("c") \/ pc' = "done"))
               => verses'[current_v] = OpenText]_vars
    /\ [](current_v # NoVerse
            => /\ HasHdgTag(OpenText) => is_heading_verse
               /\ HasHeadingCmd(Decode(OpenText)) <=> HasHdgTag(OpenText))
    /\ [](\A k \in DOMAIN verses :
             HasHeadingCmd(Decode(verses[k])) <=> HasHdgTag(verses[k]))

\* two consecutive verses, the first opened under the heading flag and now
\* stored with its tag, the second open without it
C2_Witness ==
    /\ current_v # NoVerse /\ ~is_heading_verse /\ chunks # <<>>
    /\ LineKind(line, chapter, NoVerse) = "v"
    /\ \E k \in DOMAIN verses :
          /\ k # current_v
          /\ HasHdgTag(verses[k])
          /\ HasHeadingCmd(Decode(verses[k]))
    /\ ~HasHeadingCmd(Decode(OpenText))

(***************************************************************************)
(* C3 as stated: with both flags pending at a verse marker whose text is   *)
(* non-empty, both tags are applied to the first chunk and STYLE:HDG       *)
(* comes before STYLE:PARA.  Fails: the paragraph tag is prepended last.   *)
(***************************************************************************)
C3_HdgBeforePara ==
    [][(ReadKind("v") /\ after_d /\ after_p /\ chunks' # <<>>)
       => (/\ IndexOf(chunks'[1], STYLE_HDG, 1) > 0
           /\ IndexOf(chunks'[1], STYLE_PARA, 1) > 0
           /\ IndexOf(chunks'[1], STYLE_HDG, 1)
                < IndexOf(chunks'[1], STYLE_PARA, 1))]_vars

(***************************************************************************)
(* C3 amended: with both flags pending at a verse marker whose text t is   *)
(* non-empty, the first chunk is the prose tag, then STYLE:PARA, then      *)
(* STYLE:HDG, then t: both tags are applied, the paragraph tag first.      *)
(***************************************************************************)
C3_ParaBeforeHdg ==
    [][(ReadKind("v") /\ after_d /\ after_p /\ chunks' # <<>>)
       => (/\ \E l \in {line'} :
                 chunks'[1] = <<STRUCT_DELIM, "P", STRUCT_DELIM>>
                                \o STYLE_PARA \o STYLE_HDG
                                \o ChunkText(V_RE(Strip(l)).text)
           /\ IndexOf(chunks'[1], STYLE_PARA, 1)
                < IndexOf(chunks'[1], STYLE_HDG, 1))]_vars

C3_Witness ==
    /\ current_v # NoVerse /\ is_heading_verse /\ is_para
    /\ chunks # <<>>
    /\ HasHdgTag(chunks[1]) /\ HasParaTag(chunks[1])

(***************************************************************************)
(* C4: a standalone \p or \d line only sets its pending flag; every        *)
(* continuation line leaves both flags as they are and its chunk carries   *)
(* no style tag taken from a flag (a "\p text" line carries its own        *)
(* paragraph tag, pending or not); a set flag stays set until a verse      *)
(* marker opens a verse, which consumes it.                                *)
(***************************************************************************)
C4_FlagsOnlyForVerseMarker ==
    [][/\ ReadKind("d")
            => (after_d' /\ UNCHANGED <<book, chapter, verses, current_v,
                                         chunks, after_p>>)
       /\ ReadKind("p")
            => (after_p' /\ UNCHANGED <<book, chapter, verses, current_v,
                                         chunks, after_d>>)
       /\ (\E kind \in ContinuationKinds : ReadKind(kind))
            => /\ UNCHANGED <<after_d, after_p>>
               /\ \/ chunks' = chunks
                  \/ /\ Len(chunks') = Len(chunks) + 1
                     /\ SubSeq(chunks', 1, Len(chunks)) = chunks
                     /\ ~HasHdgTag(chunks'[Len(chunks')])
                     /\ HasParaTag(chunks'[Len(chunks')]) <=> ReadKind("pm")
       /\ (after_d /\ ~ReadKind("v")) => after_d'
       /\ (after_p /\ ~ReadKind("v")) => after_p'
       /\ ReadKind("v")
            => /\ is_heading_verse' = after_d /\ is_para' = after_p
               /\ ~after_d' /\ ~after_p'
               /\ chunks' # <<>>
                    => /\ HasHdgTag(chunks'[1]) <=> after_d
                       /\ HasParaTag(chunks'[1]) <=> after_p]_vars

\* a continuation line was processed while the paragraph flag was pending:
\* the flag is still set and the chunk of the line carries no style tag
C4_Witness ==
    /\ after_p
    /\ current_v # NoVerse
    /\ LineKind(line, chapter, current_v) \in {"q", "m", "text"}
    /\ Len(chunks) >= 2
    /\ ~HasHdgTag(chunks[Len(chunks)])
    /\ ~HasParaTag(chunks[Len(chunks)])

(***************************************************************************)
(* C5: poetry round trip.  A poetry line "\qN text" (N = 1 when the        *)
(* marker is unnumbered) whose text is non-empty appends exactly the chunk *)
(* Q:N + text, and the decoded text of a verse has one poem-line command   *)
(* per poetry chunk, in chunk order, each with its chunk's indent and      *)
(* rendered text, the fragment being wrapped in the ragged-alignment       *)
(* group; stored texts decode to as many poem lines as they hold poetry    *)
(* tags.                                                                   *)
(***************************************************************************)
\* the indent the marker of a poetry line names
MarkerIndent(l) ==
    LET s == Strip(l) IN IF s[3] \in Digits THEN IntOf(s[3]) ELSE 1

IsQChunk(c) ==
    Len(c) >= 3 /\ c[1] = STRUCT_DELIM /\ c[2] \in QTags /\ c[3] = STRUCT_DELIM

\* "Q:2" -> "2"
QTagDigits(tag) ==
    CASE tag = "Q:0" -> "0" [] tag = "Q:1" -> "1" [] tag = "Q:2" -> "2"
      [] tag = "Q:3" -> "3" [] tag = "Q:5" -> "5"

\* the indents of the poetry chunks, in order
RECURSIVE ChunkIndents(_)
ChunkIndents(cs) ==
    IF cs = <<>> THEN <<>>
    ELSE IF IsQChunk(Head(cs))
         THEN <<QTagDigits(Head(cs)[2])>> \o ChunkIndents(Tail(cs))
    ELSE ChunkIndents(Tail(cs))

\* the indents of the poem-line commands of a fragment, in order
RECURSIVE PoemIndents(_)
PoemIndents(frag) ==
    LET k == FirstIn({h \in 1..(Len(frag) - 1) : frag[h] = "\\poemline{"})
    IN  IF k = 0 THEN <<>>
        ELSE <<frag[k + 1]>> \o PoemIndents(Drop(frag, k))

\* the poetry tags of a VerseText, in order
RECURSIVE TextIndents(_)
TextIndents(text) ==
    LET k == FirstIn({h \in 1..Len(text) : IsQChunk(Drop(text, h - 1))})
    IN  IF k = 0 THEN <<>>
        ELSE <<QTagDigits(text[k + 1])>> \o TextIndents(Drop(text, k + 2))

IsRagged(frag) ==
    frag # <<>> /\ Head(frag) = "{\\raggedright " /\ frag[Len(frag)] = "}"

C5_PoetryRoundTrip ==
    /\ [][ReadKind("q")
            => \E l \in {line'} :
                 \E t \in {ChunkText(Q_RE(Strip(l)).text)} :
                   chunks' =
                     IF t = <<>> THEN chunks
                     ELSE Append(chunks,
                            <<STRUCT_DELIM, QTagOf(MarkerIndent(l)),
                              STRUCT_DELIM>> \o t)]_vars
    /\ [](current_v # NoVerse
            => LET d == Decode(OpenText)
               IN  /\ PoemIndents(d) = ChunkIndents(chunks)
                   /\ ChunkIndents(chunks) # <<>> => IsRagged(d)
                   /\ \A j \in 1..Len(chunks) :
                         IsQChunk(chunks[j])
                           => Contains(d,
                                <<"\\poemline{", QTagDigits(chunks[j][2]),
                                  "}{">>
                                  \o RenderInline(Drop(chunks[j], 3))
                                  \o <<"}">>))
    /\ [](\A k \in DOMAIN verses :
             LET d == Decode(verses[k])
             IN  /\ PoemIndents(d) = TextIndents(verses[k])
                 /\ TextIndents(verses[k]) # <<>> => IsRagged(d))

\* \q1 then \q2 inside verse 1:2 decode to poem lines of indents 1 and 2
C5_Witness ==
    /\ current_v = <<"1", ":", "2">>
    /\ line = L_q2
    /\ Len(chunks) = 3
    /\ chunks[2] = <<STRUCT_DELIM, "Q:1", STRUCT_DELIM, "Hear", ",", " ",
                     "O", " ", "heavens", ",">>
    /\ PoemIndents(Decode(OpenText)) = <<"1", "2">>
    /\ IsRagged(Decode(OpenText))

(***************************************************************************)
(* C6: the lines "\c 5", "\v 1 The word of \+nd LORD\+nd* came." give a    *)
(* VerseText for "5:1" whose decoded fragment has a style span wrapping    *)
(* exactly LORD and no residual escape marker from the source.             *)
(* Fails: normalise_line leaves the nested markers "\+nd" in the text.     *)
(***************************************************************************)
HasSpanAround(frag, w) ==
    \E open \in {"\\textit{", "\\textsc{", "\\textsuperscript{"} :
        Contains(frag, <<open>> \o w \o <<"}">>)

NoResidualEscape(frag) ==
    \A k \in 1..Len(frag) : frag[k] \notin {"\\", "\\textbackslash"}

C6_DivineNameSpan ==
    (pc = "done" /\ nread = 2 /\ chapter = 5 /\ line = L_v1)
      => /\ <<"5", ":", "1">> \in DOMAIN verses
         /\ HasSpanAround(Decode(verses[<<"5", ":", "1">>]), <<"LORD">>)
         /\ NoResidualEscape(Decode(verses[<<"5", ":", "1">>]))

(***************************************************************************)
(* C8 as stated: for every encoder-produced VerseText, substituting style  *)
(* spans and footnotes before the structural decoding gives the same       *)
(* fragment as decoding first and substituting afterwards.                 *)
(* Fails: the structural split breaks every placeholder apart.             *)
(***************************************************************************)
SubstThenStruct(v) ==
    render_structured_to_latex(
        inject_latex_footnotes(render_markers(wrap_hebrew(esc(v)))))

StructThenSubst(v) ==
    inject_latex_footnotes(
        render_markers(render_structured_to_latex(wrap_hebrew(esc(v)))))

C8_SubstitutionCommutes ==
    \A k \in DOMAIN verses :
        SubstThenStruct(verses[k]) = StructThenSubst(verses[k])

(***************************************************************************)
(* C8 amended: the two orders agree exactly on the encoder-produced        *)
(* VerseTexts that hold no footnote and no style-span placeholder; on a    *)
(* text that holds one they differ, and only the order of main             *)
(* (substitute, then decode) renders the placeholder.                      *)
(***************************************************************************)
HasPlaceholder(v) ==
    \E ph \in {FOOTNOTE_DELIM, ADD_OPEN, ADD_CLOSE, SC_OPEN, SC_CLOSE,
               SUP_OPEN, SUP_CLOSE} : Contains(v, ph)

C8_CommutesWithoutPlaceholders ==
    \A k \in DOMAIN verses :
        (SubstThenStruct(verses[k]) = StructThenSubst(verses[k]))
          <=> ~HasPlaceholder(verses[k])

C8_Witness ==
    /\ \E k \in DOMAIN verses :
          /\ HasPlaceholder(verses[k])
          /\ SubstThenStruct(verses[k]) # StructThenSubst(verses[k])
    /\ \E k \in DOMAIN verses :
          /\ ~HasPlaceholder(verses[k]) /\ HasDelim(verses[k])
          /\ SubstThenStruct(verses[k]) = StructThenSubst(verses[k])

(***************************************************************************)
(* C7 as stated: on an input without the reserved delimiter the fast path  *)
(* returns the input unchanged and the general split-and-token-loop path   *)
(* would give the identical result, also with leading or trailing          *)
(* whitespace.  Fails: the general path strips the text.                   *)
(***************************************************************************)
GeneralPath(x) == RenderTokens(Split(x, <<STRUCT_DELIM>>))

C7_FastPathEqualsGeneralPath ==
    (dpc = "done" /\ ~HasDelim(escaped_text))
      => /\ rendered = escaped_text
         /\ rendered = GeneralPath(escaped_text)

(***************************************************************************)
(* C7 amended: on an input without the reserved delimiter the fast path    *)
(* returns the input unchanged.  The general path would give the stripped  *)
(* input (nothing at all for an input that is itself a tag: STYLE:HDG, P   *)
(* or a text starting with Q:), so the two agree exactly when the input    *)
(* has no leading or trailing whitespace, is not such a tag and holds no   *)
(* poem-line command.                                                      *)
(***************************************************************************)
IsBareTag(x) ==
    x = <<"STYLE:HDG">> \/ x = <<"P">> \/ (x # <<>> /\ Head(x) \in QTags)

C7_FastPathUnchanged ==
    (dpc = "done" /\ ~HasDelim(escaped_text))
      => /\ rendered = escaped_text
         /\ IsBareTag(escaped_text) => GeneralPath(escaped_text) = <<>>
         /\ (~IsBareTag(escaped_text) /\ ~HasPoemline(escaped_text))
              => GeneralPath(escaped_text) = Strip(escaped_text)
         /\ (rendered = GeneralPath(escaped_text))
              <=> /\ escaped_text = Strip(escaped_text)
                  /\ ~IsBareTag(escaped_text)
                  /\ ~HasPoemline(escaped_text)

\* the fast path has returned a text with surrounding whitespace
C7_Witness ==
    /\ dpc = "done"
    /\ escaped_text = <<" ", "a", " ">>
    /\ rendered = <<" ", "a", " ">>
    /\ GeneralPath(escaped_text) = <<"a">>

(***************************************************************************)
(* C9: unbalanced style spans degrade leniently: a close placeholder with  *)
(* no unmatched open placeholder before it contributes nothing to the      *)
(* output, a stray open placeholder opens a span without a close, and      *)
(* neither makes rendering fail.                                           *)
(* Fails: render_markers turns every close placeholder into "}".           *)
(***************************************************************************)
OpenPlaceholders == {ADD_OPEN, SC_OPEN, SUP_OPEN}
ClosePlaceholders == {ADD_CLOSE, SC_CLOSE, SUP_CLOSE}
OpenCommands == {"\\textit{", "\\textsc{", "\\textsuperscript{"}

\* close placeholders of x that have an unmatched open placeholder before
\* them; depth counts the open placeholders not yet closed
RECURSIVE MatchedCloses(_, _)
MatchedCloses(x, depth) ==
    LET k == FirstIn({h \in 1..(Len(x) - 2) :
                         SubSeq(x, h, h + 2)
                           \in OpenPlaceholders \cup ClosePlaceholders})
        rest == Drop(x, k + 2)
    IN  IF k = 0 THEN 0
        ELSE IF SubSeq(x, k, k + 2) \in OpenPlaceholders
             THEN MatchedCloses(rest, depth + 1)
        ELSE IF depth > 0 THEN 1 + MatchedCloses(rest, depth - 1)
        ELSE MatchedCloses(rest, 0)

RECURSIVE OpenCount(_)
OpenCount(x) ==
    LET k == FirstIn({h \in 1..(Len(x) - 2) :
                         SubSeq(x, h, h + 2)
                           \in OpenPlaceholders \cup ClosePlaceholders})
    IN  IF k = 0 THEN 0
        ELSE IF SubSeq(x, k, k + 2) \in OpenPlaceholders
             THEN 1 + OpenCount(Drop(x, k + 2))
        ELSE OpenCount(Drop(x, k + 2))

CountIn(x, S) == Len(SelectSeq(x, LAMBDA a : a \in S))

\* every delimiter of x opens or closes a tag or placeholder name, so that
\* x reads as text, tags and placeholders in one way only
RECURSIVE WellDelimited(_)
WellDelimited(x) ==
    LET k == IndexOf(x, <<STRUCT_DELIM>>, 1)
    IN  IF k = 0 THEN TRUE
        ELSE /\ Len(x) >= k + 2
             /\ x[k + 1] # STRUCT_DELIM /\ x[k + 2] = STRUCT_DELIM
             /\ WellDelimited(Drop(x, k + 2))

C9_StrayCloseIsNoOp ==
    (dpc = "start" /\ escaped_text = RenderInline(csv_text)
       /\ IsCsvText(csv_text) /\ WellDelimited(csv_text))
      => LET x == wrap_hebrew(esc(csv_text))
         IN  /\ CountIn(render_markers(x), {"}"}) = MatchedCloses(x, 0)
             /\ CountIn(render_markers(x), OpenCommands) = OpenCount(x)

(***************************************************************************)
(* C10: when the token loop arrives at the last token of the stream and it *)
(* is a poetry tag or a prose tag, so that no payload follows, the tag is  *)
(* skipped: the loop ends without adding output, and the rendered result   *)
(* is that of the same stream without its final tag.                       *)
(***************************************************************************)
AtDanglingTag ==
    /\ dpc = "loop"
    /\ i = Len(parts)
    /\ TokenKind(parts, i) \in {"q", "p"}

Front(ps) == SubSeq(ps, 1, Len(ps) - 1)

C10_DanglingTagSkipped ==
    /\ [][AtDanglingTag
            => /\ i' = Len(parts) + 1
               /\ out' = out
               /\ pending_heading' = pending_heading
               /\ dpc' = "loop"]_vars
    /\ [](AtDanglingTag
            => /\ FinishRender(out) = RenderTokens(Front(parts))
               /\ RenderTokens(parts) = RenderTokens(Front(parts)))
    /\ [](dpc = "done" /\ HasDelim(escaped_text)
            => rendered = RenderTokens(parts))

\* "a<RS>Q:2": the stream ended in a poetry tag and only "a" was rendered
C10_Witness ==
    /\ dpc = "done"
    /\ parts = << <<"a">>, <<"Q:2">> >>
    /\ i = 3
    /\ rendered = <<"a">>

(***************************************************************************)
(* Footnote blocks, read off the pieces a fragment is made of              *)
(***************************************************************************)
\* \f\b matches at "\f " and at "\f*": either piece can open a block, and
\* the block runs to the first "\f*" after it
BlockStart(segs) ==
    LET k == FirstIn({h \in 1..Len(segs) : segs[h] \in {F_open, F_close}})
    IN  IF k = 0 \/ \A h \in (k + 1)..Len(segs) : segs[h] # F_close
        THEN 0 ELSE k

BlockEnd(segs) ==
    FirstIn({h \in (BlockStart(segs) + 1)..Len(segs) : segs[h] = F_close})

\* the pieces strictly inside the first block
BlockContent(segs) == SubSeq(segs, BlockStart(segs) + 1, BlockEnd(segs) - 1)

\* text a piece carries after its marker
OwnText(seg) ==
    CASE seg = F_ref -> <<"1", ":", "2", " ">>
      [] seg = F_body -> <<"Note", " ", "text">>
      [] seg = F_blank -> <<" ">>
      [] seg = F_plus -> <<"two">>
      [] seg = T_word -> <<"a">>
      [] OTHER -> <<>>

\* number of marker-free pieces that follow position k: their text runs on
FollowRun(c, k) ==
    CHOOSE n \in 0..(Len(c) - k) :
        /\ \A h \in 1..n : c[k + h] \in {F_plus, T_word}
        /\ k + n = Len(c) \/ c[k + n + 1] \notin {F_plus, T_word}

\* the trimmed texts of the pieces of c whose marker is in heads
RECURSIVE PieceTexts(_, _)
PieceTexts(c, heads) ==
    LET k == FirstIn({h \in 1..Len(c) : c[h] \in heads})
    IN  IF k = 0 THEN <<>>
        ELSE LET n == FollowRun(c, k)
             IN  <<Strip(Join([h \in 1..(n + 1) |-> OwnText(c[k + h - 1])],
                              <<>>))>>
                   \o PieceTexts(Drop(c, k + n), heads)

BlockBody(c) == Strip(Join(PieceTexts(c, {F_body, F_blank}), <<" ">>))

BlockReference(c) == PieceTexts(c, {F_ref})

BlockNote(c) ==
    IF BlockReference(c) # <<>>
    THEN BlockReference(c)[1] \o <<":", " ">> \o BlockBody(c)
    ELSE BlockBody(c)

\* every block replaced as the contract says
RECURSIVE FootnotesReplaced(_)
FootnotesReplaced(segs) ==
    IF BlockStart(segs) = 0 THEN Join(segs, <<>>)
    ELSE LET c == BlockContent(segs)
         IN  Join(SubSeq(segs, 1, BlockStart(segs) - 1), <<>>)
               \o (IF BlockBody(c) = <<>> THEN <<" ">>
                   ELSE FOOTNOTE_DELIM \o BlockNote(c) \o FOOTNOTE_DELIM
                          \o <<" ">>)
               \o FootnotesReplaced(Drop(segs, BlockEnd(segs)))

\* some block of the fragment has a non-empty body
RECURSIVE HasNoteBlock(_)
HasNoteBlock(segs) ==
    /\ BlockStart(segs) # 0
    /\ \/ BlockBody(BlockContent(segs)) # <<>>
       \/ HasNoteBlock(Drop(segs, BlockEnd(segs)))

(***************************************************************************)
(* C11: every footnote block with a non-empty body is replaced by one      *)
(* placeholder DELIM note DELIM and one space; the note is                 *)
(* "<reference>: <body>" when the block has a reference piece and <body>   *)
(* otherwise, the body being the block's body pieces in order joined by    *)
(* single spaces.  Reference "1:2" with body "Note text" gives             *)
(* "1:2: Note text".                                                       *)
(***************************************************************************)
C11_FootnotePlaceholder ==
    /\ (fpc = "extracted"
          /\ frag_segs \in FragSeqs(FootnoteSegments)
          /\ HasNoteBlock(frag_segs))
         => frag_text = FootnotesReplaced(frag_segs)
    /\ (fpc = "extracted"
          /\ frag_segs = <<F_open, F_ref, F_body, F_close>>)
         => frag_text = FOOTNOTE_DELIM
                          \o <<"1", ":", "2", ":", " ", "Note", " ", "text">>
                          \o FOOTNOTE_DELIM \o <<" ">>

\* "a\f + \ft Note text\f*": a block without reference piece after text
C11_Witness ==
    /\ fpc = "extracted"
    /\ frag_segs = <<T_word, F_open, F_body, F_close>>
    /\ frag_text = <<"a">> \o FOOTNOTE_DELIM \o <<"Note", " ", "text">>
                     \o FOOTNOTE_DELIM \o <<" ">>

(***************************************************************************)
(* C12: a footnote block whose body is empty after trimming contributes no *)
(* placeholder: the extractor puts a single space in its place, with or    *)
(* without a reference piece, and after normalisation the text around the  *)
(* block is as it would be without the block, apart from one space.        *)
(***************************************************************************)
\* number of blocks with a non-empty body
RECURSIVE NoteBlocks(_)
NoteBlocks(segs) ==
    IF BlockStart(segs) = 0 THEN 0
    ELSE (IF BlockBody(BlockContent(segs)) # <<>> THEN 1 ELSE 0)
           + NoteBlocks(Drop(segs, BlockEnd(segs)))

\* the fragment holds exactly one block and its body is empty
OneEmptyBlock(segs) ==
    /\ segs \in FragSeqs(FootnoteSegments)
    /\ BlockStart(segs) # 0
    /\ BlockBody(BlockContent(segs)) = <<>>
    /\ BlockStart(Drop(segs, BlockEnd(segs))) = 0

TextBefore(segs) == Join(SubSeq(segs, 1, BlockStart(segs) - 1), <<>>)

TextAfter(segs) == Join(Drop(segs, BlockEnd(segs)), <<>>)

\* s is r, or r with one space put in
OneSpaceApart(s, r) ==
    \/ s = r
    \/ \E k \in 1..Len(s) :
          /\ s[k] = " "
          /\ SubSeq(s, 1, k - 1) \o Drop(s, k) = r

C12_EmptyFootnoteDropped ==
    /\ (fpc = "extracted"
          /\ frag_segs \in FragSeqs(FootnoteSegments))
         => CountIn(frag_text, {"FOOTNOTE"}) = 2 * NoteBlocks(frag_segs)
    /\ (fpc = "extracted" /\ OneEmptyBlock(frag_segs))
         => frag_text = TextBefore(frag_segs) \o <<" ">>
                          \o TextAfter(frag_segs)
    /\ (fpc = "normalised" /\ OneEmptyBlock(frag_segs))
         => OneSpaceApart(frag_t,
                          normalise_line(TextBefore(frag_segs)
                                           \o TextAfter(frag_segs)))

\* "a\f + \fr 1:2 \f*": the block has a reference piece and no body
C12_Witness ==
    /\ fpc = "normalised"
    /\ frag_segs = <<T_word, F_open, F_ref, F_close>>
    /\ frag_text = <<"a", " ">>
    /\ frag_t = <<"a">>

(***************************************************************************)
(* len() of a string of the model: every atom is one character except the  *)
(* words written out here                                                  *)
(***************************************************************************)
StrLen(s) ==
    Len(s) + 7 * CountIn(s, {"FOOTNOTE"}) + 3 * CountIn(s, {"Note", "text"})
      + 2 * CountIn(s, {"two"}) + CountIn(s, {"fr", "ft", "wh"})

(***************************************************************************)
(* C13 as stated: for every raw fragment the string the extractor returns  *)
(* is of equal or shorter length than the fragment.                        *)
(***************************************************************************)
C13_NeverLonger ==
    fpc = "extracted"
      => StrLen(frag_text) <= StrLen(frag_raw)

(***************************************************************************)
(* C13 amended: for every raw fragment the string the extractor returns,   *)
(* not counting the two delimiters of each placeholder it puts in, is of   *)
(* equal or shorter length than the fragment.                              *)
(***************************************************************************)
C13_NeverLongerApartFromDelimiters ==
    fpc = "extracted"
      => StrLen(frag_text)
           - StrLen(FOOTNOTE_DELIM) * CountIn(frag_text, {"FOOTNOTE"})
           <= StrLen(frag_raw)

\* "\f + \fr 1:2 \ft Note text\f*": 29 characters in, 35 out, 20 of them
\* the two delimiters
C13_Witness ==
    /\ fpc = "extracted"
    /\ frag_segs = <<F_open, F_ref, F_body, F_close>>
    /\ StrLen(frag_raw) = 29
    /\ StrLen(frag_text) = 35
    /\ CountIn(frag_text, {"FOOTNOTE"}) = 2

(***************************************************************************)
(* C18: normalise_line is idempotent on marker-free text: for a fragment   *)
(* that holds no markup marker,                                            *)
(* normalise_line(normalise_line(x)) = normalise_line(x).                  *)
(***************************************************************************)
\* no backslash marker, no attribute bar, no placeholder delimiter
MarkerFree(x) ==
    \A k \in 1..Len(x) : x[k] \notin {"\\", "|", "*", STRUCT_DELIM}

C18_NormaliseIdempotent ==
    (fpc = "normalised" /\ MarkerFree(frag_raw))
      => /\ frag_t = normalise_line(frag_raw)
         /\ normalise_line(frag_t) = frag_t

\* a" b: the first pass closes up the space after the quote and then puts
\* one back, and the second pass does the same
C18_Witness ==
    /\ fpc = "normalised"
    /\ frag_raw = <<"a", "\"", " ", "a">>
    /\ frag_t = <<"a", "\"", " ", "a">>
    /\ FixOpenQuotes(frag_raw) = <<"a", "\"", "a">>

(***************************************************************************)
(* C14: the encoder omits empty chunks: for every line kind, if nothing    *)
(* remains of the line's text after footnote extraction and normalisation, *)
(* no chunk is appended, so no chunk of the chunk list consists of         *)
(* structural and style tags only.                                         *)
(***************************************************************************)
\* length of the run of <RS>tag<RS> tokens at the head of a chunk
RECURSIVE TagRun(_)
TagRun(c) ==
    IF /\ Len(c) >= 3 /\ c[1] = STRUCT_DELIM /\ c[3] = STRUCT_DELIM
       /\ c[2] \in {"P"} \cup QTags \cup StyleTags
    THEN 3 + TagRun(Drop(c, 3))
    ELSE 0

\* what a chunk holds after its structural and style tags
ChunkPayload(c) == Drop(c, TagRun(c))

C14_NoEmptyChunk ==
    \A k \in 1..Len(chunks) : ChunkPayload(chunks[k]) # <<>>

(***************************************************************************)
(* C19: flush isolation.  When a verse is flushed (at the next verse       *)
(* marker, at a chapter marker, at end of input) the text stored under its *)
(* reference is the chunks appended since it was opened, in line order,    *)
(* joined by single spaces and trimmed, and no other stored text changes;  *)
(* the accumulator is then empty, so that no chunk is carried into another *)
(* verse; a flush with no open verse stores nothing; between flushes the   *)
(* accumulator only grows at its end and nothing is stored.                *)
(***************************************************************************)
\* the branch the step just taken went through; "eof" for the final flush
StepKind ==
    IF pc = "read" /\ nread' = nread + 1
    THEN CHOOSE kind \in {LineKind(l, chapter, current_v) : l \in {line'}} :
            TRUE
    ELSE IF pc = "read" /\ pc' = "done" THEN "eof" ELSE "none"

\* the step opens a verse: the accumulator restarts with that verse's own
\* first chunk, or empty when the marker has no text
RestartedChunks ==
    \E l \in {line'} :
        /\ Len(chunks') <= 1
        /\ chunks' # <<>>
             => ChunkPayload(chunks'[1]) = ChunkText(V_RE(Strip(l)).text)

C19_FlushIsolation ==
    [][\E kind \in {StepKind} :
           /\ (kind \in {"v", "c", "eof"} /\ current_v # NoVerse)
                => /\ DOMAIN verses' = DOMAIN verses \cup {current_v}
                   /\ verses'[current_v] = Strip(Join(chunks, <<" ">>))
                   /\ \A k \in DOMAIN verses \ {current_v} :
                         verses'[k] = verses[k]
           /\ (kind \in {"v", "c", "eof"} /\ current_v = NoVerse)
                => verses' = verses
           /\ kind \in {"c", "eof"} => chunks' = <<>>
           /\ kind = "v" => RestartedChunks
           /\ kind \notin {"v", "c", "eof"}
                => /\ verses' = verses
                   /\ current_v' = current_v
                   /\ Len(chunks') <= Len(chunks) + 1
                   /\ SubSeq(chunks', 1, Len(chunks)) = chunks
                   /\ current_v = NoVerse => chunks' = <<>>]_vars

\* "\c 1", "\v 2a again", "plain prose", end of input: verse 1:2a is stored
\* as its two chunks and the accumulator is empty
C19_Witness ==
    /\ pc = "done"
    /\ chunks = <<>>
    /\ <<"1", ":", "2", "a">> \in DOMAIN verses
    /\ verses[<<"1", ":", "2", "a">>]
         = <<STRUCT_DELIM, "P", STRUCT_DELIM, "again", " ",
             STRUCT_DELIM, "P", STRUCT_DELIM, "plain", " ", "prose">>

(***************************************************************************)
(* C20: after a chapter marker the verse that was open has been stored,    *)
(* the current chapter is the marker's number and no verse is open; every  *)
(* continuation line (poetry, flush-left, paragraph or plain) read while   *)
(* no verse is open is dropped and changes no stored text.                 *)
(***************************************************************************)
\* the line would be a continuation line if a verse were open
IsContinuationLine(l, ch) ==
    LineKind(l, ch, <<"1", ":", "1">>) \in ContinuationKinds

C20_ChapterClosesVerse ==
    /\ [][\E l \in {line'} :
             /\ (pc = "read" /\ nread' = nread + 1 /\ C_RE(Strip(l)).ok
                   /\ ~IsBookId(l) /\ ~IsHeadingIntro(Strip(l))
                   /\ ~IsParagraphBreak(Strip(l)))
                  => /\ chapter' = IntOf(C_RE(Strip(l)).num)
                     /\ current_v' = NoVerse
                     /\ chunks' = <<>>
                     /\ current_v # NoVerse
                          => /\ current_v \in DOMAIN verses'
                             /\ verses'[current_v] = OpenText
             /\ (pc = "read" /\ nread' = nread + 1 /\ current_v = NoVerse
                   /\ IsContinuationLine(l, chapter))
                  => /\ verses' = verses
                     /\ chunks' = chunks
                     /\ current_v' = NoVerse
                     /\ chapter' = chapter]_vars
    /\ [](current_v = NoVerse => chunks = <<>>)

\* "\c 1", "\v 2a again", " \c 5", "plain prose": the plain line after the
\* chapter marker is dropped
C20_Witness ==
    /\ pc = "read" /\ nread = 4
    /\ line = L_plain
    /\ chapter = 5
    /\ current_v = NoVerse
    /\ chunks = <<>>
    /\ DOMAIN verses = {<<"1", ":", "2", "a">>}
    /\ verses[<<"1", ":", "2", "a">>]
         = <<STRUCT_DELIM, "P", STRUCT_DELIM, "again">>

(***************************************************************************)
(* Reference ranges as they are written                                    *)
(***************************************************************************)
\* a reference as the mapping writes it: numeral, ":", numeral and an
\* optional lowercase letter
IsVerseRef(r) ==
    /\ Len(r) \in {3, 4}
    /\ IsNumeral(r[1]) /\ r[2] = ":" /\ IsNumeral(r[3])
    /\ Len(r) = 4 => r[4] \in {"a", "b", "c"}

\* the text before and after the dash of a range
RangeStart(r) == Strip(SubSeq(r, 1, IndexOf(r, <<"-">>, 1) - 1))

RangeEnd(r) == Strip(Drop(r, IndexOf(r, <<"-">>, 1)))

\* r is written as a range of two references
IsRange(r) ==
    /\ IndexOf(r, <<"-">>, 1) # 0
    /\ IsVerseRef(RangeStart(r))
    /\ IsVerseRef(RangeEnd(r))

R_24_40 == <<"24", ":", "40">>
R_24_45 == <<"24", ":", "45">>

\* get_mt_text has run on the range 24:40-24:45
Expanded_24_40_45 ==
    /\ rpc \in {"returned", "raised"}
    /\ IsRange(mt_ref)
    /\ RangeStart(mt_ref) = R_24_40
    /\ RangeEnd(mt_ref) = R_24_45

(***************************************************************************)
(* C15 as stated: expanding the range "24:40-24:45" yields exactly five    *)
(* references, in ascending verse order, all in chapter 24.               *)
(***************************************************************************)
C15_FiveReferences ==
    Expanded_24_40_45
      => /\ ~expand_range(R_24_40, R_24_45).raised
         /\ Len(expand_range(R_24_40, R_24_45).refs) = 5

(***************************************************************************)
(* C15 amended: expanding the range "24:40-24:45" yields exactly six       *)
(* references, 24:40 to 24:45 with both ends included, in ascending verse  *)
(* order, all in chapter 24; the text looked up is that of these six.      *)
(***************************************************************************)
C15_SixReferences ==
    Expanded_24_40_45
      => /\ ~expand_range(R_24_40, R_24_45).raised
         /\ expand_range(R_24_40, R_24_45).refs
              = << <<"24", ":", "40">>, <<"24", ":", "41">>,
                   <<"24", ":", "42">>, <<"24", ":", "43">>,
                   <<"24", ":", "44">>, <<"24", ":", "45">> >>
         /\ rpc = "returned"
         /\ mt_text = <<"forty", " ", "one", " ", "two", " ", "three",
                        " ", "five">>

\* the range written "24:40 - 24:45" has been looked up
C15_Witness ==
    /\ rpc = "returned"
    /\ mt_ref = <<"24", ":", "40", " ", "-", " ", "24", ":", "45">>
    /\ mt_text = <<"forty", " ", "one", " ", "two", " ", "three",
                   " ", "five">>
    /\ Len(expand_range(R_24_40, R_24_45).refs) = 6

(***************************************************************************)
(* C16: looking up the text for a range whose ends are in different        *)
(* chapters, or whose start or end carries a letter, is a hard failure: an *)
(* error is raised and no text, not even an empty one, is returned.        *)
(***************************************************************************)
C16_BadRangeRaises ==
    (rpc \in {"returned", "raised"} /\ IsRange(mt_ref)
       /\ \/ RangeStart(mt_ref)[1] # RangeEnd(mt_ref)[1]
          \/ Len(RangeStart(mt_ref)) = 4
          \/ Len(RangeEnd(mt_ref)) = 4)
      => rpc = "raised"

(***************************************************************************)
(* C17: ref_sort_key orders the references by chapter, then verse, then    *)
(* suffix, no suffix before every letter and the letters alphabetically:   *)
(* 40 < 40a < 40b < 41 in any chapter.  The order is strict and total, and *)
(* two references have equal keys only if they are the same chapter, verse *)
(* and suffix.  The sort of the rows puts them in that order.              *)
(***************************************************************************)
\* the order of the references as the claim words it
RefBefore(a, b) ==
    LET ca == IntOfNumeral(a[1])
        cb == IntOfNumeral(b[1])
        va == IntOfNumeral(a[3])
        vb == IntOfNumeral(b[3])
    IN  \/ ca < cb
        \/ ca = cb /\ va < vb
        \/ ca = cb /\ va = vb /\ Len(a) = 3 /\ Len(b) = 4
        \/ ca = cb /\ va = vb /\ Len(a) = 4 /\ Len(b) = 4
             /\ <<a[4], b[4]>> \in {<<"a", "b">>, <<"a", "c">>, <<"b", "c">>}

\* one list is the other rearranged
SameRows(x, y) ==
    /\ Len(x) = Len(y)
    /\ \A r \in RefStrings :
          Cardinality({k \in 1..Len(x) : x[k] = r})
            = Cardinality({k \in 1..Len(y) : y[k] = r})

C17_RefOrder ==
    [][(rpc = "rows" /\ rpc' = "sorted")
         => \E rows \in {lxx_refs}, sorted \in {lxx_refs'} :
               /\ \A j, k \in 1..Len(rows) :
                     LET a == rows[j]
                         b == rows[k]
                         ka == ref_sort_key(a)
                         kb == ref_sort_key(b)
                     IN  /\ KeyLess(ka, kb) <=> RefBefore(a, b)
                         /\ ka = kb <=> a = b
                         /\ a # b => (KeyLess(ka, kb) <=> ~KeyLess(kb, ka))
                         /\ ~KeyLess(ka, ka)
               /\ \A j, k \in 1..Len(sorted) :
                     j < k => ~RefBefore(sorted[k], sorted[j])
               /\ SameRows(rows, sorted)]_vars

\* three rows of chapter 24 after the sort: 40 before 40a before 41
C17_Witness ==
    /\ rpc = "sorted"
    /\ lxx_refs = << <<"24", ":", "40">>, <<"24", ":", "40", "a">>,
                     <<"24", ":", "41">> >>

(***************************************************************************)
(* C21: in the token loop a heading style token sets the pending flag,     *)
(* advances one token and adds no output; a poem-line step adds no heading *)
(* command and leaves the flag as it was; a prose or fallback step with    *)
(* the flag set and a payload that is not blank appends that payload       *)
(* inside exactly one heading command and clears the flag, with a blank or *)
(* missing payload it keeps the flag and adds no heading command, and with *)
(* the flag clear it adds none; so the rendered text never holds more      *)
(* heading commands than the stream holds heading tokens.                  *)
(***************************************************************************)
HeadingCmds(s) ==
    Cardinality({k \in 1..Len(s) : s[k] = "\\DescriptiveHeading{"})

OutHeadingCmds(o) == HeadingCmds(Join(o, <<>>))

HeadingTokens(ps) ==
    Cardinality({k \in 1..Len(ps) : ps[k] = <<"STYLE:HDG">>})

\* where the payload of the token at parts[k] sits; 0 when it has none
PayloadAt(ps, k) ==
    LET kind == TokenKind(ps, k)
        at == IF kind = "text" THEN k
              ELSE IF kind = "p" /\ k + 2 <= Len(ps)
                      /\ ps[k + 2] = <<"STYLE:PARA">> THEN k + 3
              ELSE k + 1
    IN  IF kind # "hdg" /\ at <= Len(ps) THEN at ELSE 0

TokenStep == dpc = "loop" /\ dpc' = "loop" /\ i' # i

C21_HeadingFlag ==
    [][\E ps \in {parts}, o \in {out}, o2 \in {out'} :
         /\ TokenStep /\ TokenKind(ps, i) = "hdg"
              => pending_heading' /\ i' = i + 1 /\ o2 = o
         /\ TokenStep /\ TokenKind(ps, i) = "q"
              => /\ pending_heading' = pending_heading
                 /\ OutHeadingCmds(o2) = OutHeadingCmds(o)
         /\ TokenStep /\ TokenKind(ps, i) \in {"p", "text"}
              => LET at == PayloadAt(ps, i)
                     seg == IF at = 0 THEN <<>> ELSE Strip(ps[at])
                 IN  IF pending_heading /\ seg # <<>>
                     THEN /\ ~pending_heading'
                          /\ o2 # <<>>
                          /\ o2[Len(o2)]
                               = <<"\\DescriptiveHeading{">> \o seg
                                   \o <<"}", " ">>
                          /\ OutHeadingCmds(o2) = OutHeadingCmds(o) + 1
                     ELSE /\ pending_heading' = (pending_heading /\ seg = <<>>)
                          /\ OutHeadingCmds(o2) = OutHeadingCmds(o)
         /\ dpc' = "done"
              => \E r \in {rendered'} :
                    HeadingCmds(r)
                      <= HeadingTokens(Split(escaped_text, <<STRUCT_DELIM>>))
       ]_vars

\* "<RS>STYLE:HDG<RS>a": the one payload after the heading token is wrapped
C21_Witness ==
    /\ dpc = "done"
    /\ parts = << <<>>, <<"STYLE:HDG">>, <<"a">> >>
    /\ ~pending_heading
    /\ rendered = <<"\\DescriptiveHeading{", "a", "}">>

(***************************************************************************)
(* C22: whatever the text, well formed or not, the result of               *)
(* render_structured_to_latex(inject_latex_footnotes(render_markers(x)))   *)
(* holds no reserved delimiter; neither does the rendered text of any      *)
(* call of render_structured_to_latex that has returned.                   *)
(***************************************************************************)
DecodePipeline(x) ==
    render_structured_to_latex(inject_latex_footnotes(render_markers(x)))

C22_NoDelimiterInOutput ==
    /\ dpc = "row" => ~HasDelim(DecodePipeline(csv_text))
    /\ dpc = "done" => ~HasDelim(rendered)

\* "<RS>a<RS>", not a stream the encoder writes: rendered as "a"
C22_Witness ==
    /\ dpc = "done"
    /\ csv_text = <<STRUCT_DELIM, "a", STRUCT_DELIM>>
    /\ HasDelim(escaped_text)
    /\ rendered = <<"a">>

(***************************************************************************)
(* C23: a reference that is opened again.  A verse is flushed once, when   *)
(* the next marker or the end of input closes it, so a text already stored *)
(* under the reference of the open verse comes from an earlier verse       *)
(* marker with the same reference.  A verse marker that opens a reference  *)
(* already stored restarts the accumulator with its own first chunk only;  *)
(* the flush of such a verse adds no entry and replaces the stored text by *)
(* the chunks of this occurrence alone, so the final mapping holds one     *)
(* entry for the reference, with the text of its last occurrence.          *)
(***************************************************************************)
Reopened == current_v # NoVerse /\ current_v \in DOMAIN verses

C23_LastOccurrenceWins ==
    [][\E kind \in {StepKind} :
          /\ (kind \in {"v", "c", "eof"} /\ Reopened)
               => /\ DOMAIN verses' = DOMAIN verses
                  /\ verses'[current_v] = OpenText
                  /\ \A k \in DOMAIN verses \ {current_v} :
                        verses'[k] = verses[k]
          /\ (kind = "v" /\ current_v' \in DOMAIN verses')
               => RestartedChunks
          /\ (kind \notin {"v", "c", "eof"} /\ Reopened)
               => /\ verses' = verses
                  /\ current_v' = current_v
                  /\ SubSeq(chunks', 1, Len(chunks)) = chunks]_vars

\* "\c 1", "\v 2a again", "plain prose", "\v 2a again": 1:2a is open for the
\* second time, the text of its first occurrence is still stored and the
\* flush to come will store "again" alone
C23_Witness ==
    /\ pc = "read"
    /\ nread = 4
    /\ current_v = <<"1", ":", "2", "a">>
    /\ Reopened
    /\ verses[current_v]
         = <<STRUCT_DELIM, "P", STRUCT_DELIM, "again", " ",
             STRUCT_DELIM, "P", STRUCT_DELIM, "plain", " ", "prose">>
    /\ OpenText = <<STRUCT_DELIM, "P", STRUCT_DELIM, "again">>

====
